---- MODULE Spec2Model ----
(***************************************************************************)
(* A model of the fixed-capacity strings of zuu_string.  The repository    *)
(* holds three implementations of the same container:                      *)
(*   "F"  zuu::basic_fstring<CharT, Cap>   src/include/fstring_core.hpp     *)
(*   "K"  zuu::string<CharT, N>            src/constant_string_core.hpp     *)
(*   "S"  zuu::string<CharT, N>            src/constant_string.hpp          *)
(* One object is an inline buffer data_[0 .. Cap] and a length.  The       *)
(* capacity and the implementation are fixed when the object is created.   *)
(* std::size_t is modelled as the integers modulo 2^SizeBits.              *)
(***************************************************************************)
EXTENDS Integers, Sequences, FiniteSets, TLC

\* ------------------------------------------------------------------ bounds
\* Largest capacity of the object under test.
MaxCap == 3
\* Longest source sequence handed to an operation.
MaxLen == 3
\* Width of the index type std::size_t in the model.
SizeBits == 4

\* ------------------------------------------------------- program constants
\* The terminator CharT{} / value_type{}.
NUL == 0
\* 'a' and ' ' : one letter and one whitespace unit.
LowerA == 97
Space == 32
Tab == 9
LineFeed == 10
CarriageReturn == 13

SizeMod == 2 ^ SizeBits
\* static_cast<size_type>(-1)
npos == SizeMod - 1

Units == {NUL, LowerA, Space}
Chars == Units \ {NUL}
Impls == {"F", "K", "S"}

\* Null-terminated sources (their strlen is their Len) up to MaxLen units.
SeqsUpTo(n) == UNION {[1 .. k -> Chars] : k \in 0 .. n}
Sources == SeqsUpTo(MaxLen)

\* size_t arithmetic
Wrap(x) == x % SizeMod
Sub(a, b) == (a - b + SizeMod) % SizeMod
Add(a, b) == (a + b) % SizeMod

\* --------------------------------------------- helpers of the detail layer
\* detail::min{} / std::min
min(a, b) == IF b < a THEN b ELSE a

\* A unit read through the data_ pointer; outside the array the value is
\* whatever the build finds there (callers flag the access).
Read(d, j) == IF j \in DOMAIN d THEN d[j] ELSE NUL

\* The loop  for (i = 0; i < n; ++i) data_[at + i] = str[i];
StoreSeq(d, at, s, n) ==
    [i \in DOMAIN d |-> IF i >= at /\ i < at + n THEN s[i - at + 1] ELSE d[i]]

\* The loop  for (i = 0; i < n; ++i) data_[at + i] = ch;
StoreFill(d, at, ch, n) ==
    [i \in DOMAIN d |-> IF i >= at /\ i < at + n THEN ch ELSE d[i]]

\* detail::copy{}(dst, src, n) / detail::memcpy_string : dst is data_ + at.
copy(d, at, s, n) == StoreSeq(d, at, s, n)

\* detail::fill{}(dst, ch, n) / detail::memset_string.
fill(d, at, ch, n) == StoreFill(d, at, ch, n)

\* detail::move{}(dst, src, n) / detail::memmove_string : overlap-safe.
move(d, dst, src, n) ==
    [i \in DOMAIN d |-> IF i >= dst /\ i < dst + n THEN Read(d, src + (i - dst)) ELSE d[i]]

\* The value-initialised buffer data_[N + 1]{}.
ZeroBuf(N) == [i \in 0 .. N |-> NUL]

\* A string value: the buffer and the length.
Str(d, l) == [data |-> d, len |-> l]

\* The content buffer[0, length) as a sequence.
Content(s) == [i \in 1 .. s.len |-> Read(s.data, i - 1)]

\* The first n units of a sequence.
Take(s, n) == SubSeq(s, 1, min(n, Len(s)))
\* The units of a sequence from 0-based position p on.
Drop(s, p) == SubSeq(s, p + 1, Len(s))
Repeat(ch, n) == [i \in 1 .. n |-> ch]

VARIABLES
    impl,     \* which implementation the object is an instance of
    check,    \* the build setting config::enable_bounds_check
    cap,      \* the template parameter Cap / N
    data,     \* data_ : [0 .. cap -> unit]
    len,      \* length_ / len_
    call,     \* the call that has just returned (its name, arguments, the state before it)
    ret,      \* <<value>> returned by the call, <<>> when it returns no value
    thrown,   \* the call ended by throwing std::out_of_range
    ub,       \* the call ran into undefined behaviour (an access outside data_)
    peer,     \* a second object of the same type (the other operand of swap and comparison)
    stream    \* the std::basic_istream read by operator>> : the units left and its state

vars == <<impl, check, cap, data, len, call, ret, thrown, ub, peer, stream>>

self == Str(data, len)

\* A stream with nothing to read.
NoStream == [buf |-> <<>>, good |-> TRUE]

NoCall == [op |-> "idle", index |-> 0, count |-> 0, seq |-> <<>>, ch |-> NUL,
           pre |-> Str(<<>>, 0)]
Call(o, i, c, s, u) == [op |-> o, index |-> i, count |-> c, seq |-> s, ch |-> u,
                        pre |-> self]

Idle == call.op = "idle" /\ ~ub

\* The state after default construction, for each implementation, capacity
\* and build setting (only F reads enable_bounds_check).
InitWith(caps) ==
    /\ impl \in Impls
    /\ check \in (IF impl = "F" THEN BOOLEAN ELSE {TRUE})
    /\ cap \in caps
    /\ data = ZeroBuf(cap)
    /\ len = 0
    /\ call = NoCall
    /\ ret = <<>>
    /\ thrown = FALSE
    /\ ub = FALSE
    /\ peer = Str(ZeroBuf(cap), 0)
    /\ stream = NoStream

Init == InitWith(0 .. MaxCap)

\* The caller goes on to its next call.
Return ==
    /\ call.op # "idle"
    /\ ~ub
    /\ call' = NoCall
    /\ ret' = <<>>
    /\ thrown' = FALSE
    /\ UNCHANGED <<impl, check, cap, data, len, ub, peer, stream>>

\* The outcome of a call: the buffer, the length, the returned value, whether
\* the call threw, and whether it accessed memory outside data_[0 .. N].
Res(d, l, r, u) == [data |-> d, len |-> l, ret |-> r, thrown |-> FALSE, ub |-> u]
Same(s) == Res(s.data, s.len, <<>>, FALSE)
Throw(s) == [data |-> s.data, len |-> s.len, ret |-> <<>>, thrown |-> TRUE, ub |-> FALSE]

\* A call returns with outcome r.  After an access outside the array the
\* language defines nothing about the bytes of the object: the buffer is any
\* buffer; the length is the one the size_t arithmetic of the call computed.
Finish(c, r) ==
    /\ call' = c
    /\ data' \in (IF r.ub THEN [0 .. cap -> Units] ELSE {r.data})
    /\ len' = r.len
    /\ ret' = r.ret
    /\ thrown' = r.thrown
    /\ ub' = r.ub
    /\ UNCHANGED <<impl, check, cap, peer, stream>>

\* data_[i] = v ; a store outside the array is dropped here and flagged by Oob.
Put(d, i, v) == IF i \in DOMAIN d THEN [d EXCEPT ![i] = v] ELSE d
Oob(d, i) == i \notin DOMAIN d

\* ======================================================= basic_fstring (F)
\* store(str, len), str not null
F_store(s, N, str, n) ==
    LET l == min(N, n)
        d == copy(s.data, 0, str, l)
    IN  Res(Put(d, l, NUL), l, <<>>, FALSE)

\* shift_right that moves the tail from one unit too far.
F_shift_right_off(s, N, index, count) ==
    IF count = 0 \/ index > s.len THEN s.data
    ELSE LET move_count == min(Sub(s.len, index), Sub(Sub(N, index), count))
         IN  move(s.data, index + count, index + 1, move_count)

\* shift_right(index, count)
F_shift_right(s, N, index, count) ==
    IF count = 0 \/ index > s.len THEN s.data
    ELSE LET move_count == min(Sub(s.len, index), Sub(Sub(N, index), count))
         IN  move(s.data, index + count, index, move_count)

\* shift_left(index, count) : the buffer, and whether data_ + index + count
\* or the moved range left the array.
F_shift_left(s, N, index, count) ==
    IF count = 0 \/ index >= s.len THEN Res(s.data, s.len, <<>>, FALSE)
    ELSE LET move_count == Sub(Sub(s.len, index), count)
         IN  Res(move(s.data, index, Wrap(index + count), move_count), s.len, <<>>,
                 index + count + move_count > N + 1)

\* basic_fstring(const value_type (&str)[M]) : str holds M - 1 = Len(str) units
F_ctor_array(N, str) == F_store(Str(ZeroBuf(N), 0), N, str, min(N, Len(str)))
\* explicit basic_fstring(const_pointer str)
F_ctor_cstr(N, str) == F_store(Str(ZeroBuf(N), 0), N, str, Len(str))
\* basic_fstring(const_pointer str, size_type len)
F_ctor_len(N, str, n) == F_store(Str(ZeroBuf(N), 0), N, str, n)
\* basic_fstring(size_type count, value_type ch)
F_ctor_fill(N, count, ch) ==
    LET l == min(N, count)
    IN  Res(Put(fill(ZeroBuf(N), 0, ch, l), l, NUL), l, <<>>, FALSE)

\* operator=(const_pointer str), str not null
F_assign_cstr(s, N, str) == F_store(s, N, str, Len(str))
\* operator=(value_type ch)
F_assign_char(s, N, ch) ==
    Res(Put(Put(s.data, 0, ch), 1, NUL), 1, <<>>, Oob(s.data, 1))

\* at whose check lets index == length through.
F_at_off_by_one(s, N, index, bounds_check) ==
    IF bounds_check /\ index > s.len THEN Throw(s)
    ELSE Res(s.data, s.len, <<Read(s.data, index)>>, Oob(s.data, index))

\* at(index) under the build setting enable_bounds_check
F_at(s, N, index, bounds_check) ==
    IF bounds_check /\ index >= s.len THEN Throw(s)
    ELSE Res(s.data, s.len, <<Read(s.data, index)>>, Oob(s.data, index))

\* clear()
F_clear(s, N) == Res(Put(s.data, 0, NUL), 0, <<>>, FALSE)

\* append(const_pointer str, size_type len) ; append(str) passes detail::length(str)
F_append(s, N, str, n) ==
    IF s.len # N
    THEN LET count == min(Sub(N, s.len), n)
             l == Add(s.len, count)
         IN  Res(Put(copy(s.data, s.len, str, count), l, NUL), l, <<>>, l > N)
    ELSE Same(s)

\* append(value_type ch) ; push_back(ch) calls it
F_append_char(s, N, ch) ==
    IF s.len # N
    THEN Res(Put(Put(s.data, s.len, ch), s.len + 1, NUL), Add(s.len, 1), <<>>,
             s.len + 1 > N)
    ELSE Same(s)

\* append(size_type count, value_type ch)
F_append_fill(s, N, count, ch) ==
    LET c == min(count, Sub(N, s.len))
        l == Add(s.len, c)
    IN  Res(Put(fill(s.data, s.len, ch, c), l, NUL), l, <<>>, l > N)

\* pop_back()
F_pop_back(s, N) ==
    IF s.len > 0 THEN Res(Put(s.data, s.len - 1, NUL), s.len - 1, <<>>, FALSE)
    ELSE Same(s)

\* insert(size_type index, const_pointer str)
F_insert(s, N, index, str) ==
    IF s.len # N /\ index <= s.len
    THEN LET count == min(Sub(N, s.len), Len(str))
         IN  IF count > 0
             THEN LET d1 == F_shift_right(s, N, index, count)
                      d2 == copy(d1, index, str, count)
                      l == Add(s.len, count)
                  IN  Res(Put(d2, l, NUL), l, <<>>, l > N)
             ELSE Same(s)
    ELSE Same(s)

\* insert(size_type index, value_type ch)
F_insert_char(s, N, index, ch) ==
    IF s.len # N /\ index <= s.len
    THEN LET d1 == F_shift_right(s, N, index, 1)
             d2 == Put(d1, index, ch)
             l == Add(s.len, 1)
         IN  Res(Put(d2, l, NUL), l, <<>>, l > N)
    ELSE Same(s)

\* erase(size_type index = 0, size_type count = npos)
F_erase(s, N, index, count) ==
    IF index < s.len
    THEN IF count = npos \/ Add(index, count) >= s.len
         THEN Res(Put(s.data, index, NUL), index, <<>>, FALSE)
         ELSE LET sh == F_shift_left(s, N, index, count)
                  l == Sub(s.len, count)
              IN  Res(Put(sh.data, l, NUL), l, <<>>, sh.ub \/ l > N)
    ELSE Same(s)

\* resize(size_type new_size, value_type ch)
F_resize(s, N, new_size, ch) ==
    LET n == min(new_size, N)
        d == IF n > s.len THEN fill(s.data, s.len, ch, n - s.len) ELSE s.data
    IN  Res(Put(d, n, NUL), n, <<>>, FALSE)

\* swap(other) : *this receives other's buffer and length
F_swap(s, N, other) == Res(other.data, other.len, <<>>, FALSE)

\* ============================== string of constant_string_core.hpp (K)
\* The whitespace units: ' ', '\t', '\n', '\r' (detail::is_space tests the same set).
Whitespace == {Space, Tab, LineFeed, CarriageReturn}

\* The number of leading whitespace units of buffer[0, length).
SkipLeft(s) ==
    CHOOSE k \in 0 .. s.len :
        /\ \A i \in 0 .. k - 1 : s.data[i] \in Whitespace
        /\ k = s.len \/ s.data[k] \notin Whitespace
\* The end of the content once trailing whitespace above start is dropped.
SkipRight(s, start) ==
    CHOOSE e \in start .. s.len :
        /\ \A i \in e .. s.len - 1 : s.data[i] \in Whitespace
        /\ e = start \/ s.data[e - 1] \notin Whitespace

\* assign_impl without the clamp to N.
K_assign_impl_unclamped(s, N, str, count) ==
    Res(Put(copy(s.data, 0, str, count), count, NUL), count, <<>>, FALSE)

\* assign_impl(str, count)
K_assign_impl(s, N, str, count) ==
    LET l == IF count < N THEN count ELSE N
    IN  Res(Put(copy(s.data, 0, str, l), l, NUL), l, <<>>, FALSE)

\* string(const CharT* str), string(const CharT (&)[M]), string(const string<CharT, M>&)
K_ctor(N, str) == K_assign_impl(Str(ZeroBuf(N), 0), N, str, Len(str))
\* string(size_type count, CharT ch)
K_ctor_fill(N, count, ch) ==
    LET l == IF count < N THEN count ELSE N
    IN  Res(Put(fill(ZeroBuf(N), 0, ch, l), l, NUL), l, <<>>, FALSE)
\* operator=(const CharT* str), operator=(const string<CharT, M>&)
K_assign(s, N, str) == K_assign_impl(s, N, str, Len(str))
\* operator=(CharT ch)
K_assign_char(s, N, ch) ==
    Res(Put(Put(s.data, 0, ch), 1, NUL), 1, <<>>, Oob(s.data, 1))

\* at(pos)
K_at(s, N, pos) ==
    IF pos >= s.len THEN Throw(s)
    ELSE Res(s.data, s.len, <<s.data[pos]>>, FALSE)

\* clear()
K_clear(s, N) == Res(Put(s.data, 0, NUL), 0, <<>>, FALSE)

\* push_back(ch) : returns whether the unit was stored
K_push_back(s, N, ch) ==
    IF s.len >= N THEN Res(s.data, s.len, <<FALSE>>, FALSE)
    ELSE Res(Put(Put(s.data, s.len, ch), s.len + 1, NUL), s.len + 1, <<TRUE>>, FALSE)

\* pop_back()
K_pop_back(s, N) ==
    IF s.len > 0 THEN Res(Put(s.data, s.len - 1, NUL), s.len - 1, <<>>, FALSE)
    ELSE Same(s)

\* append(const CharT* str, size_type count) : returns the units added
K_append(s, N, str, count) ==
    IF count = 0 \/ s.len >= N THEN Res(s.data, s.len, <<0>>, FALSE)
    ELSE LET to_copy == min(count, Sub(N, s.len))
             l == Add(s.len, to_copy)
         IN  Res(Put(copy(s.data, s.len, str, to_copy), l, NUL), l, <<to_copy>>, FALSE)

\* append(size_type count, CharT ch)
K_append_fill(s, N, count, ch) ==
    IF count = 0 \/ s.len >= N THEN Res(s.data, s.len, <<0>>, FALSE)
    ELSE LET to_add == min(count, Sub(N, s.len))
             l == Add(s.len, to_add)
         IN  Res(Put(fill(s.data, s.len, ch, to_add), l, NUL), l, <<to_add>>, FALSE)

\* insert(pos, str, count)
K_insert(s, N, pos, str, count) ==
    IF pos > s.len \/ count = 0 \/ s.len >= N THEN Same(s)
    ELSE LET space == Sub(N, s.len)
             to_insert == min(count, space)
             to_move == Sub(s.len, pos)
             d1 == IF to_move > 0 THEN move(s.data, pos + to_insert, pos, to_move)
                   ELSE s.data
             d2 == copy(d1, pos, str, to_insert)
             l == min(Add(s.len, to_insert), N)
         IN  Res(Put(d2, l, NUL), l, <<>>, FALSE)

\* insert(pos, count, ch)
K_insert_fill(s, N, pos, count, ch) ==
    IF pos > s.len \/ count = 0 \/ s.len >= N THEN Same(s)
    ELSE LET space == Sub(N, s.len)
             to_insert == min(count, space)
             to_move == Sub(s.len, pos)
             d1 == IF to_move > 0 THEN move(s.data, pos + to_insert, pos, to_move)
                   ELSE s.data
             d2 == fill(d1, pos, ch, to_insert)
             l == min(Add(s.len, to_insert), N)
         IN  Res(Put(d2, l, NUL), l, <<>>, FALSE)

\* erase(pos = 0, count = npos)
K_erase(s, N, pos, count) ==
    IF pos >= s.len THEN Same(s)
    ELSE LET to_erase == min(count, Sub(s.len, pos))
             new_len == Sub(s.len, to_erase)
             to_move == Sub(s.len, Add(pos, to_erase))
             d1 == IF to_move > 0 THEN move(s.data, pos, pos + to_erase, to_move)
                   ELSE s.data
         IN  Res(Put(d1, new_len, NUL), new_len, <<>>, FALSE)

\* replace(pos, count, str, str_len) : erase, then insert
K_replace(s, N, pos, count, str, str_len) ==
    IF pos > s.len THEN Same(s)
    ELSE LET e == K_erase(s, N, pos, count)
         IN  K_insert(Str(e.data, e.len), N, pos, str, str_len)

\* resize that grows without filling the new tail.
K_resize_nofill(s, N, count, ch) ==
    LET n == IF count > N THEN N ELSE count
    IN  Res(Put(s.data, n, NUL), n, <<>>, FALSE)

\* resize(count, ch)
K_resize(s, N, count, ch) ==
    LET n == IF count > N THEN N ELSE count
        d == IF n > s.len THEN fill(s.data, s.len, ch, n - s.len) ELSE s.data
    IN  Res(Put(d, n, NUL), n, <<>>, FALSE)

\* swap(other)
K_swap(s, N, other) == Res(other.data, other.len, <<>>, FALSE)

\* reverse() : the loop swaps data_[i] with data_[len_ - 1 - i] for i < len_ / 2
K_reverse(s, N) ==
    Res([i \in DOMAIN s.data |-> IF i < s.len THEN s.data[s.len - 1 - i] ELSE s.data[i]],
        s.len, <<>>, FALSE)

\* trim()
K_trim(s, N) ==
    LET start == SkipLeft(s)
        end == SkipRight(s, start)
    IN  IF start > 0 \/ end < s.len
        THEN LET l == end - start
                 d == IF start > 0 THEN move(s.data, 0, start, l) ELSE s.data
             IN  Res(Put(d, l, NUL), l, <<>>, FALSE)
        ELSE Same(s)

\* trim_left()
K_trim_left(s, N) ==
    LET start == SkipLeft(s)
    IN  IF start > 0
        THEN LET l == s.len - start
             IN  Res(Put(move(s.data, 0, start, l), l, NUL), l, <<>>, FALSE)
        ELSE Same(s)

\* trim_right()
K_trim_right(s, N) ==
    LET l == SkipRight(s, 0)
    IN  Res(Put(s.data, l, NUL), l, <<>>, FALSE)

\* =================================== string of constant_string.hpp (S)
\* assign_impl(str, count) : the loop copies str[0, len_)
S_assign_impl(s, N, str, count) ==
    LET l == IF count < N THEN count ELSE N
    IN  Res(Put(StoreSeq(s.data, 0, str, l), l, NUL), l, <<>>, FALSE)

\* string(const CharT* str), string(const CharT (&)[M]), string(const string<CharT, M>&)
S_ctor(N, str) == S_assign_impl(Str(ZeroBuf(N), 0), N, str, Len(str))
\* string(size_type count, CharT ch)
S_ctor_fill(N, count, ch) ==
    LET l == IF count < N THEN count ELSE N
    IN  Res(Put(StoreFill(ZeroBuf(N), 0, ch, l), l, NUL), l, <<>>, FALSE)
\* operator=(const CharT* str), operator=(const string<CharT, M>&)
S_assign(s, N, str) == S_assign_impl(s, N, str, Len(str))

\* at(pos)
S_at(s, N, pos) ==
    IF pos >= s.len THEN Throw(s)
    ELSE Res(s.data, s.len, <<s.data[pos]>>, FALSE)

\* clear()
S_clear(s, N) == Res(Put(s.data, 0, NUL), 0, <<>>, FALSE)

\* push_back(ch)
S_push_back(s, N, ch) ==
    IF s.len >= N THEN Res(s.data, s.len, <<FALSE>>, FALSE)
    ELSE Res(Put(Put(s.data, s.len, ch), s.len + 1, NUL), s.len + 1, <<TRUE>>, FALSE)

\* pop_back()
S_pop_back(s, N) ==
    IF s.len > 0 THEN Res(Put(s.data, s.len - 1, NUL), s.len - 1, <<>>, FALSE)
    ELSE Same(s)

\* append(str, count) that takes count units whatever space is left.
S_append_unclamped(s, N, str, count) ==
    LET l == Add(s.len, count)
    IN  Res(Put(StoreSeq(s.data, s.len, str, count), l, NUL), l, <<count>>, FALSE)

\* append(str, count)
S_append(s, N, str, count) ==
    LET to_copy == min(count, Sub(N, s.len))
        l == Add(s.len, to_copy)
    IN  Res(Put(StoreSeq(s.data, s.len, str, to_copy), l, NUL), l, <<to_copy>>, FALSE)

\* append(count, ch)
S_append_fill(s, N, count, ch) ==
    LET to_add == min(count, Sub(N, s.len))
        l == Add(s.len, to_add)
    IN  Res(Put(StoreFill(s.data, s.len, ch, to_add), l, NUL), l, <<to_add>>, FALSE)

\* erase whose loop shifts by one unit whatever to_erase is.
S_erase_shift1(s, N, pos, count) ==
    IF pos >= s.len THEN Same(s)
    ELSE LET to_erase == min(count, Sub(s.len, pos))
             new_len == Sub(s.len, to_erase)
             d1 == [i \in DOMAIN s.data |->
                       IF i >= pos /\ i < new_len THEN s.data[i + 1] ELSE s.data[i]]
         IN  Res(Put(d1, new_len, NUL), new_len, <<>>, FALSE)

\* erase(pos = 0, count = npos) : the loop data_[i] = data_[i + to_erase] runs upwards
\* over i in [pos, new_len) and reads only units it has not written.
S_erase(s, N, pos, count) ==
    IF pos >= s.len THEN Same(s)
    ELSE LET to_erase == min(count, Sub(s.len, pos))
             new_len == Sub(s.len, to_erase)
             d1 == [i \in DOMAIN s.data |->
                       IF i >= pos /\ i < new_len THEN s.data[i + to_erase] ELSE s.data[i]]
         IN  Res(Put(d1, new_len, NUL), new_len, <<>>, FALSE)

\* insert(pos, str, count) : the shifting loop runs downwards over i in (pos, len_]
\* and stores data_[i + to_insert - 1] = data_[i - 1] when i + to_insert <= N; the
\* second loop stores str[i] at pos + i while i < to_insert and pos + i < N.
S_insert(s, N, pos, str, count) ==
    IF pos > s.len THEN Same(s)
    ELSE LET space == Sub(N, s.len)
             to_insert == min(count, space)
             d1 == [j \in DOMAIN s.data |->
                       IF j - to_insert + 1 > pos /\ j - to_insert + 1 <= s.len /\ j + 1 <= N
                       THEN s.data[j - to_insert] ELSE s.data[j]]
             d2 == [j \in DOMAIN d1 |->
                       IF j >= pos /\ j - pos < to_insert /\ j < N THEN str[j - pos + 1]
                       ELSE d1[j]]
             l == min(Add(s.len, to_insert), N)
         IN  Res(Put(d2, l, NUL), l, <<>>, FALSE)

\* replace(pos, count, str, str_len)
S_replace(s, N, pos, count, str, str_len) ==
    LET e == S_erase(s, N, pos, count)
    IN  S_insert(Str(e.data, e.len), N, pos, str, str_len)

\* reverse()
S_reverse(s, N) ==
    Res([i \in DOMAIN s.data |-> IF i < s.len THEN s.data[s.len - 1 - i] ELSE s.data[i]],
        s.len, <<>>, FALSE)

\* trim() that strips the leading whitespace only.
S_trim_left_only(s, N) ==
    LET start == SkipLeft(s)
    IN  IF start > 0
        THEN LET l == s.len - start
                 d == [i \in DOMAIN s.data |-> IF i < l THEN s.data[start + i] ELSE s.data[i]]
             IN  Res(Put(d, l, NUL), l, <<>>, FALSE)
        ELSE Same(s)

\* trim() : the loop data_[i] = data_[start + i] runs upwards over i in [0, len_)
S_trim(s, N) ==
    LET start == SkipLeft(s)
        end == SkipRight(s, start)
    IN  IF start > 0 \/ end < s.len
        THEN LET l == end - start
                 d == [i \in DOMAIN s.data |-> IF i < l THEN s.data[start + i] ELSE s.data[i]]
             IN  Res(Put(d, l, NUL), l, <<>>, FALSE)
        ELSE Same(s)

\* ================================================================ operations
\* The arguments the calls are made with.
IndexArgs == 0 .. MaxCap + 1
CountArgs == (0 .. MaxCap + 1) \cup {npos - 2, npos - 1, npos}

\* Construction from a sequence: a character array, a C string, a pointer with
\* a length (F), or a string of another capacity holding str (K, S).
Construct ==
    /\ Idle
    /\ \E str \in Sources :
         \/ /\ impl = "F"
            /\ \/ Finish(Call("ctor_array", 0, Len(str), str, NUL), F_ctor_array(cap, str))
               \/ Finish(Call("ctor_cstr", 0, Len(str), str, NUL), F_ctor_cstr(cap, str))
               \/ \E n \in 0 .. Len(str) :
                    Finish(Call("ctor_len", 0, n, Take(str, n), NUL), F_ctor_len(cap, str, n))
         \/ /\ impl = "K"
            /\ Finish(Call("ctor_copy", 0, Len(str), str, NUL), K_ctor(cap, str))
         \/ /\ impl = "S"
            /\ Finish(Call("ctor_copy", 0, Len(str), str, NUL), S_ctor(cap, str))

\* Construction from a repeated unit.
ConstructFill ==
    /\ Idle
    /\ \E count \in CountArgs, ch \in Chars :
         Finish(Call("ctor_fill", 0, count, Repeat(ch, count), ch),
                CASE impl = "F" -> F_ctor_fill(cap, count, ch)
                  [] impl = "K" -> K_ctor_fill(cap, count, ch)
                  [] impl = "S" -> S_ctor_fill(cap, count, ch))

\* operator=(const CharT*) and operator=(const string<CharT, M>&)
Assign ==
    /\ Idle
    /\ \E str \in Sources :
         Finish(Call("assign", 0, Len(str), str, NUL),
                CASE impl = "F" -> F_assign_cstr(self, cap, str)
                  [] impl = "K" -> K_assign(self, cap, str)
                  [] impl = "S" -> S_assign(self, cap, str))

\* operator=(CharT)
AssignChar ==
    /\ Idle
    /\ impl \in {"F", "K"}
    /\ \E ch \in Chars :
         Finish(Call("assign_char", 0, 1, <<ch>>, ch),
                IF impl = "F" THEN F_assign_char(self, cap, ch)
                ELSE K_assign_char(self, cap, ch))

\* at(index)
At ==
    /\ Idle
    /\ \E index \in IndexArgs \cup {npos} :
         Finish(Call("at", index, 0, <<>>, NUL),
                CASE impl = "F" -> F_at(self, cap, index, check)
                  [] impl = "K" -> K_at(self, cap, index)
                  [] impl = "S" -> S_at(self, cap, index))

Clear ==
    /\ Idle
    /\ Finish(Call("clear", 0, 0, <<>>, NUL),
              CASE impl = "F" -> F_clear(self, cap)
                [] impl = "K" -> K_clear(self, cap)
                [] impl = "S" -> S_clear(self, cap))

PushBack ==
    /\ Idle
    /\ \E ch \in Chars :
         Finish(Call("push_back", 0, 1, <<ch>>, ch),
                CASE impl = "F" -> F_append_char(self, cap, ch)
                  [] impl = "K" -> K_push_back(self, cap, ch)
                  [] impl = "S" -> S_push_back(self, cap, ch))

PopBack ==
    /\ Idle
    /\ Finish(Call("pop_back", 0, 0, <<>>, NUL),
              CASE impl = "F" -> F_pop_back(self, cap)
                [] impl = "K" -> K_pop_back(self, cap)
                [] impl = "S" -> S_pop_back(self, cap))

\* append(str), append(str, count), append(other)
AppendStr ==
    /\ Idle
    /\ \E str \in Sources :
         Finish(Call("append", 0, Len(str), str, NUL),
                CASE impl = "F" -> F_append(self, cap, str, Len(str))
                  [] impl = "K" -> K_append(self, cap, str, Len(str))
                  [] impl = "S" -> S_append(self, cap, str, Len(str)))

\* append(count, ch)
AppendFill ==
    /\ Idle
    /\ \E count \in CountArgs, ch \in Chars :
         Finish(Call("append_fill", 0, count, Repeat(ch, count), ch),
                CASE impl = "F" -> F_append_fill(self, cap, count, ch)
                  [] impl = "K" -> K_append_fill(self, cap, count, ch)
                  [] impl = "S" -> S_append_fill(self, cap, count, ch))

\* insert(index, str)
Insert ==
    /\ Idle
    /\ \E index \in IndexArgs, str \in Sources :
         Finish(Call("insert", index, Len(str), str, NUL),
                CASE impl = "F" -> F_insert(self, cap, index, str)
                  [] impl = "K" -> K_insert(self, cap, index, str, Len(str))
                  [] impl = "S" -> S_insert(self, cap, index, str, Len(str)))

\* insert(index, ch) of F ; insert(pos, count, ch) of K
InsertFill ==
    /\ Idle
    /\ impl \in {"F", "K"}
    /\ \E index \in IndexArgs, ch \in Chars :
         \/ /\ impl = "F"
            /\ Finish(Call("insert", index, 1, <<ch>>, ch), F_insert_char(self, cap, index, ch))
         \/ /\ impl = "K"
            /\ \E count \in 0 .. MaxLen :
                 Finish(Call("insert", index, count, Repeat(ch, count), ch),
                        K_insert_fill(self, cap, index, count, ch))

\* erase(index, count)
Erase ==
    /\ Idle
    /\ \E index \in IndexArgs, count \in CountArgs :
         Finish(Call("erase", index, count, <<>>, NUL),
                CASE impl = "F" -> F_erase(self, cap, index, count)
                  [] impl = "K" -> K_erase(self, cap, index, count)
                  [] impl = "S" -> S_erase(self, cap, index, count))

\* replace(index, count, str)
Replace ==
    /\ Idle
    /\ impl \in {"K", "S"}
    /\ \E index \in IndexArgs, count \in CountArgs, str \in Sources :
         Finish(Call("replace", index, count, str, NUL),
                IF impl = "K" THEN K_replace(self, cap, index, count, str, Len(str))
                ELSE S_replace(self, cap, index, count, str, Len(str)))

\* resize(new_size, ch)
Resize ==
    /\ Idle
    /\ impl \in {"F", "K"}
    /\ \E new_size \in CountArgs, ch \in Units :
         Finish(Call("resize", 0, new_size, <<>>, ch),
                IF impl = "F" THEN F_resize(self, cap, new_size, ch)
                ELSE K_resize(self, cap, new_size, ch))

Reverse ==
    /\ Idle
    /\ impl \in {"K", "S"}
    /\ Finish(Call("reverse", 0, 0, <<>>, NUL),
              IF impl = "K" THEN K_reverse(self, cap) ELSE S_reverse(self, cap))

Trim ==
    /\ Idle
    /\ impl \in {"K", "S"}
    /\ Finish(Call("trim", 0, 0, <<>>, NUL),
              IF impl = "K" THEN K_trim(self, cap) ELSE S_trim(self, cap))

TrimLeft ==
    /\ Idle
    /\ impl = "K"
    /\ Finish(Call("trim_left", 0, 0, <<>>, NUL), K_trim_left(self, cap))

TrimRight ==
    /\ Idle
    /\ impl = "K"
    /\ Finish(Call("trim_right", 0, 0, <<>>, NUL), K_trim_right(self, cap))

\* ---------------------------------------------------------------- comparison
\* detail::strcmp(a, b, len) of constant_string.hpp ; detail::compare{} of the
\* fstring utilities is the same unit-by-unit comparison of the first n units.
strcmp(a, b, n) ==
    IF \A i \in 0 .. n - 1 : a[i] = b[i] THEN 0
    ELSE LET i == CHOOSE k \in 0 .. n - 1 :
                      a[k] # b[k] /\ \A j \in 0 .. k - 1 : a[j] = b[j]
         IN  IF a[i] < b[i] THEN 0 - 1 ELSE 1

\* template operator==(const Other<N>&) of basic_fstring
F_eq(a, b) ==
    LET cmp == strcmp(a.data, b.data, min(a.len, b.len))
    IN  IF cmp # 0 THEN cmp = 0 ELSE a.len = b.len

\* operator<=>(const basic_fstring&) = default : the members in declaration
\* order, data_[0 .. Cap] unit by unit and then length_.
F_spaceship(a, b, N) ==
    LET cmp == strcmp(a.data, b.data, N + 1)
    IN  IF cmp # 0 THEN cmp
        ELSE IF a.len < b.len THEN 0 - 1 ELSE IF a.len > b.len THEN 1 ELSE 0

\* compare(other) of constant_string.hpp
S_compare(a, b) ==
    LET min_len == min(a.len, b.len)
        result == strcmp(a.data, b.data, min_len)
    IN  IF result # 0 THEN result
        ELSE IF a.len < b.len THEN 0 - 1 ELSE IF a.len > b.len THEN 1 ELSE 0

\* operator==(other) of constant_string.hpp
S_eq(a, b) == S_compare(a, b) = 0
\* operator<=>(other) of constant_string.hpp
S_spaceship(a, b) ==
    LET cmp == S_compare(a, b)
    IN  IF cmp < 0 THEN 0 - 1 ELSE IF cmp > 0 THEN 1 ELSE 0

\* The answers of a == b, a < b, a > b, a <= b, a >= b.
Answers(eq, ord) ==
    [eq |-> eq, lt |-> ord < 0, gt |-> ord > 0, le |-> ord <= 0, ge |-> ord >= 0]

\* The caller compares the object with the second object.
Compare ==
    /\ Idle
    /\ impl \in {"F", "S"}
    /\ call' = Call("compare", 0, 0, <<>>, NUL)
    /\ ret' = IF impl = "F"
              THEN <<Answers(F_eq(self, peer), F_spaceship(self, peer, cap))>>
              ELSE <<Answers(S_eq(self, peer), S_spaceship(self, peer))>>
    /\ UNCHANGED <<impl, check, cap, data, len, thrown, ub, peer, stream>>

\* The defaulted copy: the second object becomes a copy of the object, the
\* whole buffer and the length.
CopyTo ==
    /\ Idle
    /\ peer' = self
    /\ call' = Call("copy", 0, 0, <<>>, NUL)
    /\ UNCHANGED <<impl, check, cap, data, len, ret, thrown, ub, stream>>

\* swap(other) : the two objects exchange buffer and length.
Swap ==
    /\ Idle
    /\ impl \in {"F", "K"}
    /\ LET r == IF impl = "F" THEN F_swap(self, cap, peer) ELSE K_swap(self, cap, peer)
       IN  /\ data' = r.data
           /\ len' = r.len
    /\ peer' = self
    /\ call' = Call("swap", 0, 0, <<>>, NUL)
    /\ UNCHANGED <<impl, check, cap, ret, thrown, ub, stream>>

Next ==
    \/ Return
    \/ Construct
    \/ ConstructFill
    \/ Assign
    \/ AssignChar
    \/ At
    \/ Clear
    \/ PushBack
    \/ PopBack
    \/ AppendStr
    \/ AppendFill
    \/ Insert
    \/ InsertFill
    \/ Erase
    \/ Replace
    \/ Resize
    \/ Reverse
    \/ Trim
    \/ TrimLeft
    \/ TrimRight

Spec == Init /\ [][Next]_vars

\* Two objects of one type, mutated, copied, swapped and compared.
InitCmp == InitWith(0 .. MaxCap) /\ impl \in {"F", "S"}

NextCmp ==
    \/ Return
    \/ Assign
    \/ Clear
    \/ PopBack
    \/ CopyTo
    \/ Swap
    \/ Compare

SpecCmp == InitCmp /\ [][NextCmp]_vars

\* Every state the caller can make its next call in is a well-formed string.
WellFormed == ~ub => (len <= cap /\ data[len] = NUL /\ DOMAIN data = 0 .. cap)

\* ============================================================ search and hash
\* detail::find_str(hay, hay_len, needle, needle_len), hay being data_ + from:
\* the index in data_ of the first occurrence inside the hay, npos for null.
find_str(d, from, hay_len, str, str_len) ==
    LET hits == {i \in from .. from + hay_len - str_len :
                    \A j \in 0 .. str_len - 1 : Read(d, i + j) = str[j + 1]}
    IN  IF hits = {} THEN npos ELSE CHOOSE i \in hits : \A k \in hits : i <= k

\* detail::find(hay, hay_len, ch), hay being data_ + from.
find(d, from, hay_len, ch) ==
    LET hits == {i \in from .. from + hay_len - 1 : Read(d, i) = ch}
    IN  IF hits = {} THEN npos ELSE CHOOSE i \in hits : \A k \in hits : i <= k

\* detail::rfind(data_, search_len, ch): the last of the first search_len units.
rfind(d, search_len, ch) ==
    LET hits == {i \in 0 .. search_len - 1 : Read(d, i) = ch}
    IN  IF hits = {} THEN npos ELSE CHOOSE i \in hits : \A k \in hits : i >= k

\* basic_fstring::find(const_pointer str, size_type pos)
F_find(s, N, str, pos) ==
    IF pos >= s.len THEN Res(s.data, s.len, <<npos>>, FALSE)
    ELSE Res(s.data, s.len,
             <<find_str(s.data, pos, Sub(s.len, pos), str, Len(str))>>, FALSE)

\* basic_fstring::find(value_type ch, size_type pos)
F_find_char(s, N, ch, pos) ==
    IF pos >= s.len THEN Res(s.data, s.len, <<npos>>, FALSE)
    ELSE Res(s.data, s.len, <<find(s.data, pos, Sub(s.len, pos), ch)>>, FALSE)

\* basic_fstring::rfind(value_type ch, size_type pos)
F_rfind(s, N, ch, pos) ==
    IF s.len = 0 THEN Res(s.data, s.len, <<npos>>, FALSE)
    ELSE LET search_len == IF pos = npos \/ pos >= s.len THEN s.len ELSE Add(pos, 1)
         IN  Res(s.data, s.len, <<rfind(s.data, search_len, ch)>>, FALSE)

\* string::find(const CharT* str, size_type pos)
S_find(s, N, str, pos) ==
    LET str_len == Len(str)
    IN  IF str_len = 0
        THEN Res(s.data, s.len, <<IF pos <= s.len THEN pos ELSE npos>>, FALSE)
        ELSE IF str_len > s.len THEN Res(s.data, s.len, <<npos>>, FALSE)
        ELSE LET hits == {i \in pos .. s.len - str_len :
                             \A j \in 0 .. str_len - 1 : s.data[i + j] = str[j + 1]}
             IN  Res(s.data, s.len,
                     <<IF hits = {} THEN npos
                       ELSE CHOOSE i \in hits : \A k \in hits : i <= k>>, FALSE)

\* detail::find_char(data_, len_, ch, pos)
find_char(d, l, ch, pos) ==
    LET hits == {i \in pos .. l - 1 : d[i] = ch}
    IN  IF hits = {} THEN npos ELSE CHOOSE i \in hits : \A k \in hits : i <= k

\* string::find(CharT ch, size_type pos)
S_find_char(s, N, ch, pos) ==
    Res(s.data, s.len, <<find_char(s.data, s.len, ch, pos)>>, FALSE)

\* string::rfind that starts one unit below the unit it should start at.
S_rfind_below(s, N, ch, pos) ==
    IF s.len = 0 THEN Res(s.data, s.len, <<npos>>, FALSE)
    ELSE LET start == IF pos >= s.len THEN s.len - 1 ELSE pos
             hits == {i \in 0 .. start - 1 : s.data[i] = ch}
         IN  Res(s.data, s.len,
                 <<IF hits = {} THEN npos
                   ELSE CHOOSE i \in hits : \A k \in hits : i >= k>>, FALSE)

\* string::rfind(CharT ch, size_type pos) : i runs from start + 1 down to 1
\* and the unit looked at is data_[i - 1].
S_rfind(s, N, ch, pos) ==
    IF s.len = 0 THEN Res(s.data, s.len, <<npos>>, FALSE)
    ELSE LET start == IF pos >= s.len THEN s.len - 1 ELSE pos
             hits == {i \in 0 .. start : s.data[i] = ch}
         IN  Res(s.data, s.len,
                 <<IF hits = {} THEN npos
                   ELSE CHOOSE i \in hits : \A k \in hits : i >= k>>, FALSE)

\* The hash is kept to its low HashBits bits: xor and the wrapping product act
\* on them exactly as on the low bits of the 64-bit value.
HashBits == 16
HashMod == 2 ^ HashBits
\* The low 24 bits of the offset basis 14695981039346656037.
FnvOffsetBasis == 2237221
\* The low 24 bits of the prime 1099511628211.
FnvPrime == 435

RECURSIVE Xor(_, _)
Xor(a, b) ==
    IF a = 0 THEN b
    ELSE IF b = 0 THEN a
    ELSE (((a % 2) + (b % 2)) % 2) + 2 * Xor(a \div 2, b \div 2)

\* h *= p, wrapping.
RECURSIVE MulWrap(_, _)
MulWrap(h, p) ==
    IF p = 0 THEN 0
    ELSE (((p % 2) * h) + (2 * MulWrap(h, p \div 2))) % HashMod

\* The loop of hash() over the units data_[i .. upto - 1].
RECURSIVE HashLoop(_, _, _, _)
HashLoop(d, i, upto, h) ==
    IF i >= upto THEN h
    ELSE HashLoop(d, i + 1, upto, MulWrap(Xor(h, d[i]) % HashMod, FnvPrime % HashMod))

\* hash() that runs over the whole buffer instead of the first len_ units.
S_hash_buffer(s, N) ==
    Res(s.data, s.len, <<HashLoop(s.data, 0, N, FnvOffsetBasis % HashMod)>>, FALSE)

\* string::hash()
S_hash(s, N) ==
    Res(s.data, s.len, <<HashLoop(s.data, 0, s.len, FnvOffsetBasis % HashMod)>>, FALSE)

\* find(str, pos)
Find ==
    /\ Idle
    /\ \E str \in Sources, pos \in IndexArgs \cup {npos} :
         Finish(Call("find", pos, Len(str), str, NUL),
                IF impl = "F" THEN F_find(self, cap, str, pos)
                ELSE S_find(self, cap, str, pos))

\* find(ch, pos)
FindChar ==
    /\ Idle
    /\ \E ch \in Chars, pos \in IndexArgs \cup {npos} :
         Finish(Call("find_char", pos, 1, <<ch>>, ch),
                IF impl = "F" THEN F_find_char(self, cap, ch, pos)
                ELSE S_find_char(self, cap, ch, pos))

\* rfind(ch, pos)
RFind ==
    /\ Idle
    /\ \E ch \in Chars, pos \in IndexArgs \cup {npos - 1, npos} :
         Finish(Call("rfind", pos, 1, <<ch>>, ch),
                IF impl = "F" THEN F_rfind(self, cap, ch, pos)
                ELSE S_rfind(self, cap, ch, pos))

\* hash()
Hash ==
    /\ Idle
    /\ impl = "S"
    /\ Finish(Call("hash", 0, 0, <<>>, NUL), S_hash(self, cap))

\* A string that is mutated and searched: the mutators leave units of longer,
\* earlier contents behind the terminator.
InitFind == InitWith(0 .. MaxCap) /\ impl \in {"F", "S"}

NextFind ==
    \/ Return
    \/ Assign
    \/ PushBack
    \/ PopBack
    \/ Clear
    \/ Find
    \/ FindChar
    \/ RFind
    \/ Hash

SpecFind == InitFind /\ [][NextFind]_vars

\* ======================================= algorithms of fstring_algorithms.hpp
\* The units the algorithms are fed: a letter and the four kinds of whitespace;
\* the longest contents are made of the letter and the space only.
AlgUnits == {LowerA, Space, Tab, LineFeed, CarriageReturn}
AlgSources ==
    UNION {[1 .. k -> AlgUnits] : k \in 0 .. MaxCap} \cup [1 .. MaxCap + 1 -> Chars]

\* The string an outcome leaves behind.
AsStr(r) == Str(r.data, r.len)

\* basic_fstring::substr<N>(pos, count) : the units are read through
\* data_ + pos, past the end of the array when pos + count is.
F_substr(s, N, pos, count) ==
    IF pos >= s.len THEN Res(ZeroBuf(N), 0, <<>>, FALSE)
    ELSE LET c == IF count = npos \/ Add(pos, count) > s.len
                  THEN Sub(s.len, pos) ELSE count
             n == min(N, c)
             r == F_ctor_len(N, [i \in 1 .. n |-> Read(s.data, pos + i - 1)], c)
         IN  Res(r.data, r.len, <<>>, n > 0 /\ Oob(s.data, pos + n - 1))

\* algorithms::trim_left(str)
Alg_trim_left(s, N) == F_substr(s, N, SkipLeft(s), npos)

\* algorithms::trim_right(str)
Alg_trim_right(s, N) == F_substr(s, N, 0, SkipRight(s, 0))

\* algorithms::trim(str)
Alg_trim(s, N) == Alg_trim_right(AsStr(Alg_trim_left(s, N)), N)

\* The loop of split: i is the index into str, parts the segments stored so
\* far (result.count is their number), current the segment being collected.
RECURSIVE SplitLoop(_, _, _, _, _, _, _)
SplitLoop(s, N, delimiter, MaxParts, i, parts, current) ==
    IF i < s.len /\ Len(parts) < MaxParts
    THEN IF s.data[i] = delimiter
         THEN IF current.len # 0
              THEN SplitLoop(s, N, delimiter, MaxParts, i + 1,
                             Append(parts, current), AsStr(F_clear(current, N)))
              ELSE SplitLoop(s, N, delimiter, MaxParts, i + 1, parts, current)
         ELSE SplitLoop(s, N, delimiter, MaxParts, i + 1, parts,
                        AsStr(F_append_char(current, N, s.data[i])))
    ELSE IF current.len # 0 /\ Len(parts) < MaxParts
         THEN Append(parts, current)
         ELSE parts

\* split that stores a segment at every delimiter, empty or not.
Alg_split_keep_empty(s, N, delimiter, MaxParts) ==
    LET parts == SplitLoop(s, N, delimiter, MaxParts, 0, <<>>, Str(ZeroBuf(N), 0))
    IN  [parts |-> IF s.len > 0 /\ s.data[0] = delimiter /\ Len(parts) < MaxParts
                   THEN <<Str(ZeroBuf(N), 0)>> \o parts ELSE parts,
         count |-> IF s.len > 0 /\ s.data[0] = delimiter /\ Len(parts) < MaxParts
                   THEN Len(parts) + 1 ELSE Len(parts)]

\* algorithms::split<CharT, Cap, MaxParts>(str, delimiter)
Alg_split(s, N, delimiter, MaxParts) ==
    LET parts == SplitLoop(s, N, delimiter, MaxParts, 0, <<>>, Str(ZeroBuf(N), 0))
    IN  [parts |-> parts, count |-> Len(parts)]

\* The loop of join: delim is the delimiter as a sequence, appended as one
\* unit by the first overload and as data(), length() by the second.
RECURSIVE JoinLoop(_, _, _, _, _)
JoinLoop(parts, delim, result_cap, i, result) ==
    IF i > Len(parts) THEN result
    ELSE LET d == IF i > 1
                  THEN IF Len(delim) = 1
                       THEN F_append_char(AsStr(result), result_cap, delim[1])
                       ELSE F_append(AsStr(result), result_cap, delim, Len(delim))
                  ELSE result
             p == F_append(AsStr(d), result_cap, Content(parts[i]), parts[i].len)
         IN  JoinLoop(parts, delim, result_cap, i + 1,
                      [p EXCEPT !.ub = result.ub \/ d.ub \/ p.ub])

\* join whose result has room for the segments only.
Alg_join_tight(parts, N, delim, DelimCap) ==
    JoinLoop(parts, delim, N * Len(parts), 1, Same(Str(ZeroBuf(N * Len(parts)), 0)))

\* algorithms::join(parts, delimiter) : DelimCap is 1 for the unit delimiter.
Alg_join(parts, N, delim, DelimCap) ==
    LET result_cap == N * Len(parts) + DelimCap * Len(parts)
    IN  JoinLoop(parts, delim, result_cap, 1, Same(Str(ZeroBuf(result_cap), 0)))

\* algorithms::pad_left(str, width, fill)
Alg_pad_left(s, N, width, ch) ==
    LET r0 == Same(Str(ZeroBuf(N), 0))
        r1 == IF s.len < width
              THEN F_append_fill(AsStr(r0), N, Sub(width, s.len), ch) ELSE r0
        r2 == F_append(AsStr(r1), N, Content(s), s.len)
    IN  [r2 EXCEPT !.ub = r1.ub \/ r2.ub]

\* algorithms::pad_right(str, width, fill)
Alg_pad_right(s, N, width, ch) ==
    IF s.len < width THEN F_append_fill(s, N, Sub(width, s.len), ch) ELSE Same(s)

\* center that puts the odd unit of padding on the left.
Alg_center_odd_left(s, N, width, ch) ==
    IF s.len >= width THEN Same(s)
    ELSE LET total_pad == Sub(width, s.len)
             right_pad == total_pad \div 2
             left_pad == total_pad - right_pad
             r1 == F_append_fill(Str(ZeroBuf(N), 0), N, left_pad, ch)
             r2 == F_append(AsStr(r1), N, Content(s), s.len)
             r3 == F_append_fill(AsStr(r2), N, right_pad, ch)
         IN  [r3 EXCEPT !.ub = r1.ub \/ r2.ub \/ r3.ub]

\* algorithms::center(str, width, fill)
Alg_center(s, N, width, ch) ==
    IF s.len >= width THEN Same(s)
    ELSE LET total_pad == Sub(width, s.len)
             left_pad == total_pad \div 2
             right_pad == total_pad - left_pad
             r1 == F_append_fill(Str(ZeroBuf(N), 0), N, left_pad, ch)
             r2 == F_append(AsStr(r1), N, Content(s), s.len)
             r3 == F_append_fill(AsStr(r2), N, right_pad, ch)
         IN  [r3 EXCEPT !.ub = r1.ub \/ r2.ub \/ r3.ub]

\* A free function returns value v and leaves its argument as it was.
Pure(c, v, u) ==
    /\ call' = c
    /\ ret' = <<v>>
    /\ thrown' = FALSE
    /\ ub' = u
    /\ UNCHANGED <<impl, check, cap, data, len, peer, stream>>

\* trim(str), trim_left(str), trim_right(str)
AlgTrim ==
    /\ Idle
    /\ impl = "F"
    /\ \E op \in {"alg_trim", "alg_trim_left", "alg_trim_right"} :
         LET r == CASE op = "alg_trim" -> Alg_trim(self, cap)
                    [] op = "alg_trim_left" -> Alg_trim_left(self, cap)
                    [] op = "alg_trim_right" -> Alg_trim_right(self, cap)
         IN  Pure(Call(op, 0, 0, <<>>, NUL), AsStr(r), r.ub)

\* split<CharT, Cap, MaxParts>(str, delimiter)
Split ==
    /\ Idle
    /\ impl = "F"
    /\ \E delimiter \in AlgUnits, MaxParts \in 1 .. 3 :
         Pure(Call("split", 0, MaxParts, <<>>, delimiter),
              Alg_split(self, cap, delimiter, MaxParts), FALSE)

\* The delimiters of join: single units and strings of up to two units.
JoinDelims == {<<Space>>, <<LowerA>>, <<>>, <<Space, LowerA>>}

\* join(parts, delimiter) over an array of one to three strings of capacity
\* Cap, the object being the first of them; the capacity of the result is a
\* std::size_t below npos.
Join ==
    /\ Idle
    /\ impl = "F"
    /\ \E rest \in UNION {[1 .. n -> SeqsUpTo(2)] : n \in 0 .. 2}, delim \in JoinDelims :
         /\ (cap + 2) * (Len(rest) + 1) < npos
         /\ LET others == [i \in 1 .. Len(rest) |->
                              AsStr(F_ctor_len(cap, rest[i], Len(rest[i])))]
                parts == <<self>> \o others
                r == Alg_join(parts, cap, delim, IF Len(delim) = 1 THEN 1 ELSE 2)
            IN  Pure(Call("join", 0, Len(parts), [i \in 1 .. Len(parts) |-> Content(parts[i])],
                          NUL) @@ [delim |-> delim],
                     AsStr(r), r.ub)

\* pad_left, pad_right, center
Pad ==
    /\ Idle
    /\ impl = "F"
    /\ \E op \in {"pad_left", "pad_right", "center"},
          width \in (0 .. MaxCap + 3) \cup {npos}, ch \in Chars :
         LET r == CASE op = "pad_left" -> Alg_pad_left(self, cap, width, ch)
                    [] op = "pad_right" -> Alg_pad_right(self, cap, width, ch)
                    [] op = "center" -> Alg_center(self, cap, width, ch)
         IN  Pure(Call(op, 0, width, <<>>, ch), AsStr(r), r.ub)

\* A string constructed from any content of letters and whitespace, then
\* trimmed in place or handed to the algorithms.
InitAlg ==
    /\ impl \in Impls
    /\ check = TRUE
    /\ cap \in 0 .. MaxCap + 1
    /\ \E str \in AlgSources :
         /\ Len(str) <= cap
         /\ data = F_ctor_len(cap, str, Len(str)).data
         /\ len = Len(str)
    /\ call = NoCall
    /\ ret = <<>>
    /\ thrown = FALSE
    /\ ub = FALSE
    /\ peer = Str(ZeroBuf(cap), 0)
    /\ stream = NoStream

NextAlg ==
    \/ Return
    \/ Trim
    \/ TrimLeft
    \/ TrimRight
    \/ AlgTrim
    \/ Split
    \/ Join
    \/ Pad

SpecAlg == InitAlg /\ [][NextAlg]_vars

\* ======================================================= integer conversions
\* IntT is int with IntBits bits, UIntT its unsigned type, unsigned long long
\* a wider unsigned type.
IntBits == 5
IntMin == -(2 ^ (IntBits - 1))
IntMax == 2 ^ (IntBits - 1) - 1
IntValues == IntMin .. IntMax
UIntMod == 2 ^ IntBits
WideBits == IntBits + 2
WideMod == 2 ^ WideBits

Digit0 == 48
Digit9 == 57
LowerZ == 122
UpperA == 65
UpperZ == 90
Minus == 45
Plus == 43

\* std::numeric_limits<IntT>::digits10
digits10 == CHOOSE d \in 0 .. IntBits : 10 ^ d <= IntMax /\ IntMax < 10 ^ (d + 1)

\* (digit < 10) ? '0' + digit : 'a' + (digit - 10)
DigitChar(digit) == IF digit < 10 THEN Digit0 + digit ELSE LowerA + (digit - 10)

\* The loop that fills buffer[pos++] with the digits of uvalue, the least
\* significant first.
RECURSIVE DigitLoop(_, _)
DigitLoop(uvalue, base) ==
    IF uvalue > 0
    THEN <<DigitChar(uvalue % base)>> \o DigitLoop(uvalue \div base, base)
    ELSE <<>>

\* The loop  while (pos > 0) result.append(buffer[--pos]);
RECURSIVE AppendReversed(_, _, _, _)
AppendReversed(r, N, buffer, pos) ==
    IF pos > 0
    THEN LET a == F_append_char(AsStr(r), N, buffer[pos])
         IN  AppendReversed([a EXCEPT !.ub = r.ub \/ a.ub], N, buffer, pos - 1)
    ELSE r

\* to_fstring(IntT value) : the result has capacity max_digits.
F_to_fstring(value) ==
    LET max_digits == digits10 + 3
        result == Same(Str(ZeroBuf(max_digits), 0))
    IN  IF value = 0 THEN F_append_char(AsStr(result), max_digits, Digit0)
        ELSE LET negative == value < 0
                 uvalue == IF negative THEN ((-(value + 1)) + 1) % UIntMod ELSE value
                 buffer == DigitLoop(uvalue, 10)
                 signed == IF negative
                           THEN F_append_char(AsStr(result), max_digits, Minus)
                           ELSE result
                 r == AppendReversed(signed, max_digits, buffer, Len(buffer))
             IN  [r EXCEPT !.ub = r.ub \/ Len(buffer) > max_digits]

\* to_fstring(IntT value, int base) : -value overflows int for the minimum
\* value, after which uvalue is any value (wild) of UIntT.
F_to_fstring_base(value, base, wild) ==
    LET max_size == IntBits + 2
        result == Same(Str(ZeroBuf(max_size), 0))
    IN  IF base < 2 \/ base > 36 THEN Same(Str(ZeroBuf(1), 0))
        ELSE IF value = 0 THEN F_append_char(AsStr(result), max_size, Digit0)
        ELSE LET negative == value < 0
                 overflow == negative /\ -value > IntMax
                 uvalue == IF overflow THEN wild
                           ELSE IF negative THEN -value ELSE value
                 buffer == DigitLoop(uvalue, base)
                 signed == IF negative
                           THEN F_append_char(AsStr(result), max_size, Minus)
                           ELSE result
                 r == AppendReversed(signed, max_size, buffer, Len(buffer))
             IN  [r EXCEPT !.ub = r.ub \/ overflow \/ Len(buffer) > max_size]

\* The loop  for (i = 0; i < pos; ++i) result.push_back(buffer[pos - 1 - i]);
RECURSIVE PushReversed(_, _, _, _)
PushReversed(r, N, buffer, pos) ==
    IF pos > 0
    THEN PushReversed(K_push_back(AsStr(r), N, buffer[pos]), N, buffer, pos - 1)
    ELSE r

\* to_string_base<N>(unsigned long long value, int base) : the argument is
\* converted to unsigned long long by the call; N is one more than its width.
K_to_string_base(value, base) ==
    LET N == WideBits + 1
        result == Same(Str(ZeroBuf(N), 0))
        uvalue == value % WideMod
        digits == DigitLoop(uvalue, base)
        buffer == SubSeq(digits, 1, min(Len(digits), N))
    IN  IF base < 2 \/ base > 36 THEN result
        ELSE IF uvalue = 0 THEN K_push_back(AsStr(result), N, Digit0)
        ELSE PushReversed(result, N, buffer, Len(buffer))

\* The digit loop of parse_int from index i on: result * base + digit is int
\* arithmetic, which overflows above IntMax.
RECURSIVE ParseLoop(_, _, _, _)
ParseLoop(s, base, i, result) ==
    IF i >= s.len THEN [value |-> result, ub |-> FALSE]
    ELSE LET ch == s.data[i]
             digit == IF ch >= Digit0 /\ ch <= Digit9 THEN ch - Digit0
                      ELSE IF ch >= LowerA /\ ch <= LowerZ THEN 10 + (ch - LowerA)
                      ELSE IF ch >= UpperA /\ ch <= UpperZ THEN 10 + (ch - UpperA)
                      ELSE -1
         IN  IF digit < 0 \/ digit >= base THEN [value |-> result, ub |-> FALSE]
             ELSE IF result * base + digit > IntMax THEN [value |-> 0, ub |-> TRUE]
             ELSE ParseLoop(s, base, i + 1, result * base + digit)

\* parse_int<IntT>(str, base) : after an overflow the value is any value
\* (wild) of IntT.
F_parse_int(s, base, wild) ==
    IF s.len = 0 THEN [value |-> 0, ub |-> FALSE]
    ELSE LET negative == s.data[0] = Minus
             i == IF s.data[0] = Minus \/ s.data[0] = Plus THEN 1 ELSE 0
             r == ParseLoop(s, base, i, 0)
         IN  IF r.ub THEN [value |-> wild, ub |-> TRUE]
             ELSE [value |-> IF negative THEN -r.value ELSE r.value, ub |-> FALSE]

\* The bases the conversions are called with, the valid ones and three others.
Bases == (2 .. 36) \cup {0, 1, 37}
\* The units the parsed strings are made of.
ParseUnits == {Digit0, Digit0 + 1, Digit9, LowerA, UpperA, Minus, Plus, Space}
ParseSources == UNION {[1 .. k -> ParseUnits] : k \in 0 .. MaxLen}

\* to_fstring(value), to_fstring(value, base), to_string_base(value, base)
Convert ==
    /\ Idle
    /\ len = 0
    /\ \E value \in IntValues, base \in Bases, wild \in 0 .. UIntMod - 1 :
         \/ /\ impl = "F"
            /\ base = 10
            /\ LET r == F_to_fstring(value)
               IN  Pure(Call("to_fstring", base, value, <<>>, NUL), AsStr(r), r.ub)
         \/ /\ impl = "F"
            /\ LET r == F_to_fstring_base(value, base, wild)
               IN  Pure(Call("to_fstring_base", base, value, <<>>, NUL), AsStr(r), r.ub)
         \/ /\ impl = "K"
            /\ LET r == K_to_string_base(value, base)
               IN  Pure(Call("to_string_base", base, value, <<>>, NUL), AsStr(r), r.ub)

\* parse_int<IntT>(str, base) on the string of the state
ParseInt ==
    /\ Idle
    /\ impl = "F"
    /\ \E base \in {0, 1, 2, 10, 16, 36}, wild \in IntValues :
         LET r == F_parse_int(self, base, wild)
         IN  Pure(Call("parse_int", base, 0, <<>>, NUL), r.value, r.ub)

\* parse_int<IntT>(to_fstring(value, base), base), and through to_fstring(value)
\* in base 10
RoundTrip ==
    /\ Idle
    /\ impl = "F"
    /\ len = 0
    /\ \E value \in IntValues, base \in 2 .. 36, wild \in IntValues,
          op \in {"round_trip", "round_trip_decimal"} :
         /\ op = "round_trip_decimal" => base = 10
         /\ LET text == IF op = "round_trip"
                        THEN F_to_fstring_base(value, base, wild % UIntMod)
                        ELSE F_to_fstring(value)
                r == F_parse_int(AsStr(text), base, wild)
            IN  Pure(Call(op, base, value, Content(AsStr(text)), NUL), r.value,
                     text.ub \/ r.ub)

\* A string of digits, signs and other units to be parsed, and the integers
\* to be converted.
InitConv ==
    /\ impl \in {"F", "K"}
    /\ check = TRUE
    /\ cap = MaxLen
    /\ \E str \in ParseSources :
         /\ impl = "K" => str = <<>>
         /\ data = F_ctor_len(cap, str, Len(str)).data
         /\ len = Len(str)
    /\ call = NoCall
    /\ ret = <<>>
    /\ thrown = FALSE
    /\ ub = FALSE
    /\ peer = Str(ZeroBuf(cap), 0)
    /\ stream = NoStream

NextConv ==
    \/ Return
    \/ Convert
    \/ ParseInt
    \/ RoundTrip

SpecConv == InitConv /\ [][NextConv]_vars

\* ======================================================= case conversion
\* 'a' - 'A', the distance data_[i] -= 32 moves a letter by.
CaseGap == 32

\* detail::to_upper(ch), detail::to_lower(ch)
to_upper(ch) == IF ch >= LowerA /\ ch <= LowerZ THEN ch - (LowerA - UpperA) ELSE ch
to_lower(ch) == IF ch >= UpperA /\ ch <= UpperZ THEN ch + (LowerA - UpperA) ELSE ch

\* string::to_upper(), string::to_lower() of the core string
K_to_upper(s, N) ==
    Res([i \in DOMAIN s.data |-> IF i < s.len THEN to_upper(s.data[i]) ELSE s.data[i]],
        s.len, <<>>, FALSE)
K_to_lower(s, N) ==
    Res([i \in DOMAIN s.data |-> IF i < s.len THEN to_lower(s.data[i]) ELSE s.data[i]],
        s.len, <<>>, FALSE)

\* to_upper() that leaves 'z' as it is.
S_to_upper_below_z(s, N) ==
    Res([i \in DOMAIN s.data |->
            IF i < s.len /\ s.data[i] >= LowerA /\ s.data[i] < LowerZ
            THEN s.data[i] - CaseGap ELSE s.data[i]],
        s.len, <<>>, FALSE)

\* string::to_upper()
S_to_upper(s, N) ==
    Res([i \in DOMAIN s.data |->
            IF i < s.len /\ s.data[i] >= LowerA /\ s.data[i] <= LowerZ
            THEN s.data[i] - CaseGap ELSE s.data[i]],
        s.len, <<>>, FALSE)

\* string::to_lower()
S_to_lower(s, N) ==
    Res([i \in DOMAIN s.data |->
            IF i < s.len /\ s.data[i] >= UpperA /\ s.data[i] <= UpperZ
            THEN s.data[i] + CaseGap ELSE s.data[i]],
        s.len, <<>>, FALSE)

\* The loop  for (i = 0; i < str.length(); ++i) result.append(f(str[i]));
\* upper tells which of detail::to_upper and detail::to_lower f is.
RECURSIVE CaseLoop(_, _, _, _, _)
CaseLoop(r, N, s, i, upper) ==
    IF i < s.len
    THEN LET ch == IF upper THEN to_upper(s.data[i]) ELSE to_lower(s.data[i])
             a == F_append_char(AsStr(r), N, ch)
         IN  CaseLoop([a EXCEPT !.ub = r.ub \/ a.ub], N, s, i + 1, upper)
    ELSE r

\* algorithms::to_upper(str), algorithms::to_lower(str)
Alg_to_upper(s, N) == CaseLoop(Same(Str(ZeroBuf(N), 0)), N, s, 0, TRUE)
Alg_to_lower(s, N) == CaseLoop(Same(Str(ZeroBuf(N), 0)), N, s, 0, FALSE)

\* to_upper(str), to_lower(str) : a copy of str, converted.
S_to_upper_copy(s, N) == S_to_upper(AsStr(S_ctor(N, Content(s))), N)
S_to_lower_copy(s, N) == S_to_lower(AsStr(S_ctor(N, Content(s))), N)

\* s.to_upper(), s.to_lower()
ToUpper ==
    /\ Idle
    /\ impl \in {"K", "S"}
    /\ Finish(Call("to_upper", 0, 0, <<>>, NUL),
              IF impl = "K" THEN K_to_upper(self, cap) ELSE S_to_upper(self, cap))

ToLower ==
    /\ Idle
    /\ impl \in {"K", "S"}
    /\ Finish(Call("to_lower", 0, 0, <<>>, NUL),
              IF impl = "K" THEN K_to_lower(self, cap) ELSE S_to_lower(self, cap))

\* to_upper(str), to_lower(str)
CaseCopy ==
    /\ Idle
    /\ impl \in {"F", "S"}
    /\ \E op \in {"to_upper_copy", "to_lower_copy"} :
         LET r == CASE op = "to_upper_copy" /\ impl = "F" -> Alg_to_upper(self, cap)
                    [] op = "to_lower_copy" /\ impl = "F" -> Alg_to_lower(self, cap)
                    [] op = "to_upper_copy" /\ impl = "S" -> S_to_upper_copy(self, cap)
                    [] op = "to_lower_copy" /\ impl = "S" -> S_to_lower_copy(self, cap)
         IN  Pure(Call(op, 0, 0, <<>>, NUL), AsStr(r), r.ub)

\* ======================================================= concatenation
\* operator+ whose result has the capacity of the left operand.
F_plus_left_capacity(s, N, other, M) ==
    F_append(AsStr(F_ctor_len(N, Content(s), s.len)), N,
             Content(other), other.len)

\* basic_fstring::operator+(const Other<M>& other) : the result has capacity
\* Cap + M.
F_plus(s, N, other, M) ==
    F_append(AsStr(F_ctor_len(N + M, Content(s), s.len)), N + M,
             Content(other), other.len)

\* The fold  (result.append(rest.data(), rest.length()), ...)  of builder.
RECURSIVE BuilderLoop(_, _, _, _)
BuilderLoop(r, total_cap, rest, i) ==
    IF i <= Len(rest)
    THEN LET a == F_append(AsStr(r), total_cap, Content(rest[i]), rest[i].len)
         IN  BuilderLoop([a EXCEPT !.ub = r.ub \/ a.ub], total_cap, rest, i + 1)
    ELSE r

\* builder::operator()(first, rest...) : caps is the sum of the capacities of
\* rest.
F_builder(first, N, rest, caps) ==
    BuilderLoop(F_ctor_len(N + caps, Content(first), first.len), N + caps, rest, 1)

\* concat(a, b), operator+(a, b)
S_concat(a, N1, b, N2) ==
    LET first == S_append(Str(ZeroBuf(N1 + N2), 0), N1 + N2, Content(a), a.len)
    IN  S_append(AsStr(first), N1 + N2, Content(b), b.len)

\* The right operands: a content with the capacity of its string.
Operands == {o \in [str : SeqsUpTo(2), cap : 0 .. MaxCap] : Len(o.str) <= o.cap}
OperandStr(o) == AsStr(F_ctor_len(o.cap, o.str, Len(o.str)))

\* a + b, concat(a, b)
Concat ==
    /\ Idle
    /\ impl \in {"F", "S"}
    /\ \E o \in Operands :
         LET r == IF impl = "F" THEN F_plus(self, cap, OperandStr(o), o.cap)
                  ELSE S_concat(self, cap, OperandStr(o), o.cap)
         IN  Pure(Call("concat", o.cap, 1, <<o.str>>, NUL), AsStr(r), r.ub)

\* builder{}(first, rest...)
Builder ==
    /\ Idle
    /\ impl = "F"
    /\ \E o1 \in Operands, o2 \in Operands, n \in 1 .. 2 :
         LET os == SubSeq(<<o1, o2>>, 1, n)
             rest == [i \in 1 .. n |-> OperandStr(os[i])]
             caps == IF n = 1 THEN o1.cap ELSE o1.cap + o2.cap
             r == F_builder(self, cap, rest, caps)
         IN  /\ n = 1 => o2 = o1
             /\ Pure(Call("builder", caps, n, [i \in 1 .. n |-> os[i].str], NUL),
                     AsStr(r), r.ub)

\* The units of the strings of the text operations: letters at both ends of
\* the two ranges, the unit after 'z', and a space.
TextUnits == {LowerA, LowerZ, UpperA, UpperZ, LowerZ + 1, Space}
TextSources == UNION {[1 .. k -> TextUnits] : k \in 0 .. MaxLen}

\* A string of any capacity constructed from a text.
InitText ==
    /\ impl \in Impls
    /\ check = TRUE
    /\ cap \in 0 .. MaxCap
    /\ \E str \in TextSources :
         /\ Len(str) <= cap
         /\ data = F_ctor_len(cap, str, Len(str)).data
         /\ len = Len(str)
    /\ call = NoCall
    /\ ret = <<>>
    /\ thrown = FALSE
    /\ ub = FALSE
    /\ peer = Str(ZeroBuf(cap), 0)
    /\ stream = NoStream

NextText ==
    \/ Return
    \/ ToUpper
    \/ ToLower
    \/ CaseCopy
    \/ Concat
    \/ Builder

SpecText == InitText /\ [][NextText]_vars

\* ======================================================= replace (substring)
\* algorithms::replace(str, from, to) runs as a loop; the call record holds
\* the position in it (pc), pos, found and the result built so far.

\* The loops  while (pos < limit && !result.full()) result.append(str[pos++]);
RECURSIVE CopyUntil(_, _, _, _, _)
CopyUntil(result, result_cap, s, pos, limit) ==
    IF pos < limit /\ result.len # result_cap
    THEN CopyUntil(AsStr(F_append_char(result, result_cap, s.data[pos])),
                   result_cap, s, pos + 1, limit)
    ELSE [result |-> result, pos |-> pos]

\* The loop  for (i = 0; i < to.length() && !result.full(); ++i) result.append(to[i]);
RECURSIVE CopyReplacement(_, _, _, _)
CopyReplacement(result, result_cap, to, i) ==
    IF i < Len(to) /\ result.len # result_cap
    THEN CopyReplacement(AsStr(F_append_char(result, result_cap, to[i + 1])),
                         result_cap, to, i + 1)
    ELSE result

\* replace(str, from, to) is called: result is empty and pos is 0.
ReplaceCall ==
    /\ Idle
    /\ impl = "F"
    /\ \E from \in SeqsUpTo(2), to \in SeqsUpTo(2) :
         call' = Call("replace", 0, 0, from, NUL) @@
                 [pc |-> "while", pos |-> 0, found |-> npos, to |-> to,
                  result |-> Str(ZeroBuf(cap * 2), 0)]
    /\ UNCHANGED <<impl, check, cap, data, len, ret, thrown, ub, peer, stream>>

\* while (pos < str.length()) { found = str.find(from.data(), pos); when it is
\* npos the rest of str is copied and the loop is left.
ReplaceFind ==
    /\ call.op = "replace"
    /\ call.pc = "while"
    /\ call.pos < len
    /\ LET found == F_find(self, cap, call.seq, call.pos).ret[1]
       IN  IF found = npos
           THEN call' = [call EXCEPT !.pc = "return", !.found = found,
                            !.result = CopyUntil(call.result, cap * 2, self,
                                                 call.pos, len).result,
                            !.pos = CopyUntil(call.result, cap * 2, self,
                                              call.pos, len).pos]
           ELSE call' = [call EXCEPT !.pc = "copy", !.found = found]
    /\ UNCHANGED <<impl, check, cap, data, len, ret, thrown, ub, peer, stream>>

\* The units before the match and the replacement are copied, and
\* pos = found + from.length(); back to the head of the loop.
ReplaceCopy ==
    /\ call.op = "replace"
    /\ call.pc = "copy"
    /\ LET before == CopyUntil(call.result, cap * 2, self, call.pos, call.found)
           result == CopyReplacement(before.result, cap * 2, call.to, 0)
       IN  call' = [call EXCEPT !.pc = "while", !.result = result,
                        !.pos = Add(call.found, Len(call.seq))]
    /\ UNCHANGED <<impl, check, cap, data, len, ret, thrown, ub, peer, stream>>

\* The loop is left with pos >= str.length().
ReplaceExit ==
    /\ call.op = "replace"
    /\ call.pc = "while"
    /\ call.pos >= len
    /\ call' = [call EXCEPT !.pc = "return"]
    /\ UNCHANGED <<impl, check, cap, data, len, ret, thrown, ub, peer, stream>>

\* return result;
ReplaceReturn ==
    /\ call.op = "replace"
    /\ call.pc = "return"
    /\ call' = [call EXCEPT !.pc = "done"]
    /\ ret' = <<call.result>>
    /\ UNCHANGED <<impl, check, cap, data, len, thrown, ub, peer, stream>>

\* The caller takes the result.
ReplaceDone ==
    /\ call.op = "replace"
    /\ call.pc = "done"
    /\ call' = NoCall
    /\ ret' = <<>>
    /\ UNCHANGED <<impl, check, cap, data, len, thrown, ub, peer, stream>>

\* One step of a running replace.
ReplaceStep == ReplaceFind \/ ReplaceCopy \/ ReplaceExit \/ ReplaceReturn

NextReplace ==
    \/ ReplaceCall
    \/ ReplaceFind
    \/ ReplaceCopy
    \/ ReplaceExit
    \/ ReplaceReturn
    \/ ReplaceDone

\* The string replace is called on.
InitReplace ==
    /\ impl = "F"
    /\ check = TRUE
    /\ cap \in 0 .. MaxCap
    /\ \E str \in Sources :
         /\ Len(str) <= cap
         /\ data = F_ctor_len(cap, str, Len(str)).data
         /\ len = Len(str)
    /\ call = NoCall
    /\ ret = <<>>
    /\ thrown = FALSE
    /\ ub = FALSE
    /\ peer = Str(ZeroBuf(cap), 0)
    /\ stream = NoStream

\* A call that has started keeps running: the thread goes on executing it.
SpecReplace == InitReplace /\ [][NextReplace]_vars /\ WF_vars(ReplaceStep)

\* ======================================================= stream extraction
\* detail::is_space(ch)
is_space(ch) == ch \in Whitespace
\* std::isspace(ch), for the units read here
isspace(ch) == ch \in Whitespace

\* is.get(ch) : the unit taken, or a failure that leaves the stream failed.
Get(is) ==
    IF is.good /\ is.buf # <<>>
    THEN [ok |-> TRUE, ch |-> Head(is.buf), is |-> [is EXCEPT !.buf = Tail(is.buf)]]
    ELSE [ok |-> FALSE, ch |-> NUL, is |-> [is EXCEPT !.good = FALSE]]
\* is.putback(ch)
Putback(is, ch) == [is EXCEPT !.buf = <<ch>> \o is.buf]

\* The loop  while (is.get(ch) && !detail::is_space(ch) && !str.full()) str.append(ch);
RECURSIVE F_extract_loop(_, _, _)
F_extract_loop(str, N, is) ==
    LET g == Get(is)
    IN  IF g.ok /\ ~is_space(g.ch) /\ str.len # N
        THEN F_extract_loop(AsStr(F_append_char(str, N, g.ch)), N, g.is)
        ELSE [str |-> str, is |-> g.is]

\* operator>>(std::basic_istream&, basic_fstring&)
F_extract(s, N, is) == F_extract_loop(AsStr(F_clear(s, N)), N, is)

\* The loop  while (is.get(ch) && std::isspace(ch));
RECURSIVE SkipSpace(_)
SkipSpace(is) ==
    LET g == Get(is)
    IN  IF g.ok /\ isspace(g.ch) THEN SkipSpace(g.is) ELSE g

\* The loop  while (is.get(ch) && !std::isspace(ch)) { if (!str.push_back(ch)) {
\* is.putback(ch); break; } }
RECURSIVE K_extract_loop(_, _, _)
K_extract_loop(str, N, is) ==
    LET g == Get(is)
    IN  IF g.ok /\ ~isspace(g.ch)
        THEN LET pushed == K_push_back(str, N, g.ch)
             IN  IF pushed.ret = <<FALSE>>
                 THEN [str |-> str, is |-> Putback(g.is, g.ch)]
                 ELSE K_extract_loop(AsStr(pushed), N, g.is)
        ELSE [str |-> str, is |-> g.is]

\* operator>>(std::basic_istream&, string&)
K_extract(s, N, is) ==
    LET skipped == SkipSpace(is)
        str == AsStr(K_clear(s, N))
    IN  IF skipped.is.good
        THEN K_extract_loop(str, N, Putback(skipped.is, skipped.ch))
        ELSE [str |-> str, is |-> skipped.is]

\* is >> str
Extract ==
    /\ Idle
    /\ impl \in {"F", "K"}
    /\ LET r == IF impl = "F" THEN F_extract(self, cap, stream)
                ELSE K_extract(self, cap, stream)
       IN  /\ call' = Call("extract", 0, 0, stream.buf, NUL) @@ [is |-> stream]
           /\ data' = r.str.data
           /\ len' = r.str.len
           /\ stream' = r.is
    /\ ret' = <<>>
    /\ thrown' = FALSE
    /\ UNCHANGED <<impl, check, cap, ub, peer>>

\* The units a stream holds: letters and the whitespace units.
StreamUnits == {LowerA, LowerZ, Space, LineFeed}
StreamLen == MaxLen + 1

\* A default-constructed string and a stream with some input.
InitStream ==
    /\ impl \in {"F", "K"}
    /\ check = TRUE
    /\ cap \in 0 .. MaxCap
    /\ data = ZeroBuf(cap)
    /\ len = 0
    /\ call = NoCall
    /\ ret = <<>>
    /\ thrown = FALSE
    /\ ub = FALSE
    /\ peer = Str(ZeroBuf(cap), 0)
    /\ \E buf \in UNION {[1 .. k -> StreamUnits] : k \in 0 .. StreamLen} :
         stream = [buf |-> buf, good |-> TRUE]

NextStream ==
    \/ Return
    \/ Extract
    \/ PushBack

SpecStream == InitStream /\ [][NextStream]_vars

\* ======================================================= from_string
LowerX == 120
UpperX == 88
LowerB == 98
UpperB == 66

\* while (pos < str.length() && detail::is_space(str[pos])) ++pos;
RECURSIVE SkipWhitespace(_, _)
SkipWhitespace(s, pos) ==
    IF pos < s.len /\ is_space(s.data[pos]) THEN SkipWhitespace(s, pos + 1) ELSE pos

\* The digit loop of from_string over the unsigned type with modulus mod:
\* result = result * base + digit_value wraps, and the loop gives up when the
\* wrapped result is below the old one.
RECURSIVE FromStringLoop(_, _, _, _, _, _)
FromStringLoop(s, pos, base, result, has_digits, mod) ==
    IF pos >= s.len THEN [overflow |-> FALSE, result |-> result, has_digits |-> has_digits]
    ELSE LET ch == s.data[pos]
             digit_value == IF ch >= Digit0 /\ ch <= Digit9 THEN ch - Digit0
                            ELSE IF ch >= LowerA /\ ch <= LowerZ THEN ch - LowerA + 10
                            ELSE IF ch >= UpperA /\ ch <= UpperZ THEN ch - UpperA + 10
                            ELSE -1
             next == (result * base + digit_value) % mod
         IN  IF digit_value < 0 \/ digit_value >= base
             THEN [overflow |-> FALSE, result |-> result, has_digits |-> has_digits]
             ELSE IF next < result
             THEN [overflow |-> TRUE, result |-> next, has_digits |-> has_digits]
             ELSE FromStringLoop(s, pos + 1, base, next, TRUE, mod)

\* The outcome of from_string: what it returns, the caller's value after it,
\* and whether it ran into undefined behaviour.
Parsed(ok, value, u) == [ok |-> ok, value |-> value, ub |-> u]

\* The base and the position after the detection of the base (base == 0).
AutoBase(s, pos, base, binary) ==
    IF base # 0 THEN [base |-> base, pos |-> pos]
    ELSE IF Read(s.data, pos) = Digit0
    THEN IF pos + 1 < s.len /\ s.data[pos + 1] \in {LowerX, UpperX}
         THEN [base |-> 16, pos |-> pos + 2]
         ELSE IF binary /\ pos + 1 < s.len /\ s.data[pos + 1] \in {LowerB, UpperB}
         THEN [base |-> 2, pos |-> pos + 2]
         ELSE [base |-> 8, pos |-> pos]
    ELSE [base |-> 10, pos |-> pos]

\* from_string (signed) that stores the magnitude before the range check.
K_from_string_early_store(s, value, base, wild) ==
    IF s.len = 0 \/ base < 0 \/ base = 1 \/ base > 36 THEN Parsed(FALSE, value, FALSE)
    ELSE LET start == SkipWhitespace(s, 0)
         IN  IF start >= s.len THEN Parsed(FALSE, value, FALSE)
             ELSE LET negative == s.data[start] = Minus
                      pos == IF s.data[start] \in {Minus, Plus} THEN start + 1 ELSE start
                  IN  IF pos >= s.len THEN Parsed(FALSE, value, FALSE)
                      ELSE LET b == AutoBase(s, pos, base, TRUE)
                               r == FromStringLoop(s, b.pos, b.base, 0, FALSE, UIntMod)
                           IN  IF r.overflow \/ ~r.has_digits THEN Parsed(FALSE, value, FALSE)
                               ELSE IF negative
                               THEN IF r.result > IntMax + 1 THEN Parsed(FALSE, r.result, FALSE)
                                    ELSE IF r.result = IntMax + 1 THEN Parsed(TRUE, wild, TRUE)
                                    ELSE Parsed(TRUE, -r.result, FALSE)
                               ELSE IF r.result > IntMax THEN Parsed(FALSE, r.result, FALSE)
                                    ELSE Parsed(TRUE, r.result, FALSE)

\* from_string(str, value, base) for a signed T : -static_cast<T>(result)
\* overflows when result is max + 1, after which value is any value (wild).
K_from_string(s, value, base, wild) ==
    IF s.len = 0 \/ base < 0 \/ base = 1 \/ base > 36 THEN Parsed(FALSE, value, FALSE)
    ELSE LET start == SkipWhitespace(s, 0)
         IN  IF start >= s.len THEN Parsed(FALSE, value, FALSE)
             ELSE LET negative == s.data[start] = Minus
                      pos == IF s.data[start] \in {Minus, Plus} THEN start + 1 ELSE start
                  IN  IF pos >= s.len THEN Parsed(FALSE, value, FALSE)
                      ELSE LET b == AutoBase(s, pos, base, TRUE)
                               r == FromStringLoop(s, b.pos, b.base, 0, FALSE, UIntMod)
                           IN  IF r.overflow \/ ~r.has_digits THEN Parsed(FALSE, value, FALSE)
                               ELSE IF negative
                               THEN IF r.result > IntMax + 1 THEN Parsed(FALSE, value, FALSE)
                                    ELSE IF r.result = IntMax + 1 THEN Parsed(TRUE, wild, TRUE)
                                    ELSE Parsed(TRUE, -r.result, FALSE)
                               ELSE IF r.result > IntMax THEN Parsed(FALSE, value, FALSE)
                                    ELSE Parsed(TRUE, r.result, FALSE)

\* from_string(str, value, base) for an unsigned T
K_from_string_unsigned(s, value, base) ==
    IF s.len = 0 \/ base < 0 \/ base = 1 \/ base > 36 THEN Parsed(FALSE, value, FALSE)
    ELSE LET start == SkipWhitespace(s, 0)
         IN  IF start >= s.len THEN Parsed(FALSE, value, FALSE)
             ELSE LET pos == IF s.data[start] = Plus THEN start + 1 ELSE start
                      b == AutoBase(s, pos, base, FALSE)
                      r == FromStringLoop(s, b.pos, b.base, 0, FALSE, UIntMod)
                  IN  IF r.overflow \/ ~r.has_digits THEN Parsed(FALSE, value, FALSE)
                      ELSE Parsed(TRUE, r.result, FALSE)

\* The bases from_string is called with and the values the caller's variable
\* holds before the call.
FromBases == {-1, 0, 1, 2, 10, 16, 36, 37}
OldValues == {0, 7}

\* from_string(str, value, base) : call.count is value before the call, ret
\* the returned flag with value after it.
FromString ==
    /\ Idle
    /\ impl = "K"
    /\ \E base \in FromBases, value \in OldValues, wild \in IntValues :
         LET r == K_from_string(self, value, base, wild)
         IN  Pure(Call("from_string", base, value, <<>>, NUL),
                  [ok |-> r.ok, value |-> r.value], r.ub)

FromStringUnsigned ==
    /\ Idle
    /\ impl = "K"
    /\ \E base \in FromBases, value \in OldValues :
         LET r == K_from_string_unsigned(self, value, base)
         IN  Pure(Call("from_string_unsigned", base, value, <<>>, NUL),
                  [ok |-> r.ok, value |-> r.value], r.ub)

\* A string of digits, signs and spaces to be parsed.
InitParse ==
    /\ impl = "K"
    /\ check = TRUE
    /\ cap = MaxLen
    /\ \E str \in ParseSources :
         /\ data = K_ctor(cap, str).data
         /\ len = Len(str)
    /\ call = NoCall
    /\ ret = <<>>
    /\ thrown = FALSE
    /\ ub = FALSE
    /\ peer = Str(ZeroBuf(cap), 0)
    /\ stream = NoStream

NextParse ==
    \/ Return
    \/ FromString
    \/ FromStringUnsigned

SpecParse == InitParse /\ [][NextParse]_vars

\* ======================================================= substring constructor
\* str[i] of a null-terminated source: its units, then the terminator.
SourceAt(str, i) == IF i < Len(str) THEN str[i + 1] ELSE NUL

\* string(const CharT* str, size_type pos, size_type count), str not null:
\* assign_impl(str + pos, actual) reads actual units (at most N) from str + pos,
\* past the end of the source array when pos + that many is.
K_ctor_substr(N, str, pos, count) ==
    LET str_len == Len(str)
        s == Str(ZeroBuf(N), 0)
    IN  IF pos < str_len
        THEN LET actual == IF count = npos THEN Sub(str_len, pos) ELSE count
                 l == IF actual < N THEN actual ELSE N
                 from == [k \in 1 .. l |-> SourceAt(str, pos + k - 1)]
                 r == K_assign_impl(s, N, from, actual)
             IN  [r EXCEPT !.ub = pos + l > str_len + 1]
        ELSE Same(s)

\* string<CharT, N> s(str, pos, count)
ConstructSub ==
    /\ Idle
    /\ impl = "K"
    /\ \E str \in Sources, pos \in IndexArgs, count \in CountArgs :
         Finish(Call("ctor_substr", pos, count, str, NUL),
                K_ctor_substr(cap, str, pos, count))

\* string::substr(pos, count) : the result has the capacity of the string.
S_substr(s, N, pos, count) ==
    IF pos >= s.len THEN Res(ZeroBuf(N), 0, <<>>, FALSE)
    ELSE LET actual_count == min(count, Sub(s.len, pos))
             l == min(actual_count, N)
             d == [i \in 0 .. N |-> IF i < actual_count /\ i < N
                                    THEN s.data[pos + i] ELSE NUL]
         IN  Res(Put(d, l, NUL), l, <<>>, FALSE)

\* The loop  for (i = 0; i < actual; ++i) result.push_back(str[pos + i]);
RECURSIVE SubstrLoop(_, _, _, _, _, _)
SubstrLoop(r, NewN, s, pos, i, actual) ==
    IF i < actual
    THEN SubstrLoop(S_push_back(AsStr(r), NewN, s.data[pos + i]), NewN, s, pos, i + 1, actual)
    ELSE r

\* substr<NewN>(str, pos, count)
S_substr_new(s, NewN, pos, count) ==
    LET result == Same(Str(ZeroBuf(NewN), 0))
    IN  IF pos < s.len
        THEN SubstrLoop(result, NewN, s, pos, 0, min(min(count, Sub(s.len, pos)), NewN))
        ELSE result

\* s.substr<N>(pos, count), s.substr(pos, count), substr<NewN>(s, pos, count) :
\* call.seq holds the capacity of the result.
Substr ==
    /\ Idle
    /\ impl \in {"F", "S"}
    /\ \E pos \in IndexArgs, count \in CountArgs, N \in 0 .. MaxCap :
         LET r == IF impl = "F" THEN F_substr(self, N, pos, count)
                  ELSE IF N = cap THEN S_substr(self, N, pos, count)
                  ELSE S_substr_new(self, N, pos, count)
         IN  Pure(Call("substr", pos, count, <<N>>, NUL), AsStr(r), r.ub)

NextSub ==
    \/ Return
    \/ Construct
    \/ ConstructSub
    \/ Substr

SpecSub == Init /\ [][NextSub]_vars

\* ==================================================================== claims
Pre == call.pre
Old == Content(call.pre)
Unchanged == data = call.pre.data /\ len = call.pre.len
CtorOps == {"ctor_array", "ctor_cstr", "ctor_len", "ctor_copy", "ctor_fill"}

\* C1 (invariant I2): after any sequence of public operations the length is at
\* most the capacity.
C1_LengthWithinCapacity == len <= cap

\* C2 (invariant I1): after every public operation buffer[length] is a unit of
\* the buffer and holds the terminator.
C2_TerminatorAtLength == len \in DOMAIN data /\ data[len] = NUL

\* C3: constructing from a source of length L gives length min(L, Capacity),
\* the first min(L, Capacity) units of the source as content and a terminator
\* at buffer[length]; a source longer than the capacity raises no error.
C3_ConstructionClamps ==
    call.op \in CtorOps =>
        /\ ~thrown /\ ~ub
        /\ len = min(Len(call.seq), cap)
        /\ Content(self) = Take(call.seq, cap)
        /\ data[len] = NUL

\* C3 witness: a source longer than a non-zero capacity has been truncated.
C3_Witness ==
    /\ call.op \in CtorOps
    /\ cap > 0
    /\ Len(call.seq) > cap
    /\ len = cap

\* C4: appending k units to a string with a units available keeps the old
\* content, adds exactly the first min(k, a) source units, sets the length to
\* old length + min(k, a) (the capacity when a < k), and the implementations
\* that report a count report min(k, a).
C4_SaturatingAppend ==
    call.op \in {"append", "append_fill", "push_back"} =>
        LET a == cap - Pre.len
            k == call.count
            n == min(k, a)
        IN  /\ ~thrown /\ ~ub
            /\ len = Pre.len + n
            /\ Content(self) = Old \o Take(call.seq, n)
            /\ a < k => len = cap
            /\ data[len] = NUL
            /\ (impl \in {"K", "S"} /\ call.op # "push_back") => ret = <<n>>

\* C4 witness: an append of more units than fit onto a non-empty string.
C4_Witness ==
    /\ call.op = "append"
    /\ Pre.len > 0
    /\ cap - Pre.len > 0
    /\ call.count > cap - Pre.len
    /\ ret = <<cap - Pre.len>>

\* C5: insert(index, seq) leaves the string unchanged when index > length and
\* when the string is full; otherwise the result is old[0, index) ++ seq[0, k)
\* ++ old[index, length) with k = min(|seq|, Capacity - length).
C5_InsertShifts ==
    call.op = "insert" =>
        LET k == min(call.count, cap - Pre.len)
        IN  /\ ~thrown /\ ~ub
            /\ call.index > Pre.len => Unchanged
            /\ Pre.len = cap => Unchanged
            /\ call.index <= Pre.len =>
                 /\ len = Pre.len + k
                 /\ Content(self) = Take(Old, call.index) \o Take(call.seq, k)
                                    \o Drop(Old, call.index)
                 /\ data[len] = NUL

\* C5 witness: an insertion inside the content that shifts units and is cut
\* to the space available.
C5_Witness ==
    /\ call.op = "insert"
    /\ call.index > 0
    /\ call.index < Pre.len
    /\ cap - Pre.len > 0
    /\ call.count > cap - Pre.len
    /\ len = cap

\* C6: erase(index, count) leaves the string unchanged when index >= length and
\* otherwise removes exactly e = min(count, length - index) units, for every
\* count of the index type.
C6_EraseRemovesMin ==
    call.op = "erase" =>
        /\ call.index >= Pre.len => Unchanged
        /\ call.index < Pre.len =>
             LET e == min(call.count, Pre.len - call.index)
             IN  /\ len = Pre.len - e
                 /\ Content(self) = Take(Old, call.index) \o Drop(Old, call.index + e)

\* The outcome of erase(index, count) followed by insert(index, seq) on the
\* string the replace call started from.
EraseThenInsert ==
    IF impl = "K"
    THEN LET e == K_erase(Pre, cap, call.index, call.count)
         IN  K_insert(Str(e.data, e.len), cap, call.index, call.seq, Len(call.seq))
    ELSE LET e == S_erase(Pre, cap, call.index, call.count)
         IN  S_insert(Str(e.data, e.len), cap, call.index, call.seq, Len(call.seq))

\* C7: replace(index, count, seq) reaches the state of erase(index, count)
\* followed by insert(index, seq), which is old[0, index) ++ seq[0, k) ++
\* old[index + e, length) with e = min(count, length - index) and
\* k = min(|seq|, Capacity - (length - e)); for index > length nothing changes.
C7_ReplaceIsEraseInsert ==
    call.op = "replace" =>
        /\ ~thrown /\ ~ub
        /\ data = EraseThenInsert.data
        /\ len = EraseThenInsert.len
        /\ call.index > Pre.len => Unchanged
        /\ call.index <= Pre.len =>
             LET e == min(call.count, Pre.len - call.index)
                 k == min(Len(call.seq), cap - (Pre.len - e))
             IN  /\ len = Pre.len - e + k
                 /\ Content(self) = Take(Old, call.index) \o Take(call.seq, k)
                                    \o Drop(Old, call.index + e)

\* C7 witness: a replace that erases units inside the content, keeps a tail
\* and inserts a sequence cut to the space left.
C7_Witness ==
    /\ call.op = "replace"
    /\ call.count > 0
    /\ call.index + call.count < Pre.len
    /\ Len(call.seq) > cap - (Pre.len - call.count)
    /\ len = cap

\* C8: resize(newSize, fill) sets the length to min(newSize, Capacity); growing
\* keeps the old units and fills [oldLength, newLength) with fill; shrinking
\* keeps the first newLength units.
C8_ResizeClampsAndFills ==
    call.op = "resize" =>
        LET n == min(call.count, cap)
        IN  /\ ~thrown /\ ~ub
            /\ len = n
            /\ n >= Pre.len => Content(self) = Old \o Repeat(call.ch, n - Pre.len)
            /\ n < Pre.len => Content(self) = Take(Old, n)
            /\ data[len] = NUL

\* C8 witness: a resize beyond the capacity grew a non-empty string with a
\* fill unit.
C8_Witness ==
    /\ call.op = "resize"
    /\ call.count > cap
    /\ Pre.len > 0
    /\ Pre.len < cap
    /\ call.ch # NUL
    /\ len = cap

LexLess(A, B) ==
    \E i \in 1 .. Len(B) :
        /\ \A j \in 1 .. i - 1 : j <= Len(A) /\ A[j] = B[j]
        /\ i > Len(A) \/ A[i] < B[i]

\* C10: a == b holds iff the contents are equal, and <, <=, >, >= agree with
\* the lexicographic order of the contents, whatever lies beyond the
\* terminators.
C10_ComparisonOnContent ==
    call.op = "compare" =>
        LET A == Content(self)
            B == Content(peer)
            r == ret[1]
        IN  /\ r.eq <=> A = B
            /\ r.lt <=> LexLess(A, B)
            /\ r.gt <=> LexLess(B, A)
            /\ r.le <=> ~LexLess(B, A)
            /\ r.ge <=> ~LexLess(A, B)

\* The indices at or after from where the needle lies entirely within the
\* content of the string.
Occurrences(needle, from) ==
    {i \in from .. len - Len(needle) :
        \A j \in 1 .. Len(needle) : data[i + j - 1] = needle[j]}

\* C11: find(needle, from) returns the smallest index i >= from at which the
\* needle occurs entirely within buffer[0, length), npos if there is none; for
\* an empty needle it returns from when from <= length and npos otherwise.
C11_FindFirstMatch ==
    call.op \in {"find", "find_char"} =>
        LET occ == Occurrences(call.seq, call.index)
        IN  /\ ~thrown /\ ~ub /\ Unchanged
            /\ call.seq # <<>> =>
                 ret = <<IF occ = {} THEN npos
                         ELSE CHOOSE i \in occ : \A k \in occ : i <= k>>
            /\ call.seq = <<>> =>
                 ret = <<IF call.index <= len THEN call.index ELSE npos>>

\* C12: rfind(unit, from) returns the largest index i <= min(from, length - 1)
\* holding the unit, and npos when there is none or the string is empty.
C12_RFindLastMatch ==
    call.op = "rfind" =>
        LET hits == {i \in 0 .. len - 1 : i <= call.index /\ data[i] = call.ch}
        IN  /\ ~thrown /\ ~ub /\ Unchanged
            /\ ret = <<IF hits = {} THEN npos
                       ELSE CHOOSE i \in hits : \A k \in hits : i >= k>>

\* C12 witness: rfind found the unit at or below from although the unit also
\* occurs above from, inside the content.
C12_Witness ==
    /\ call.op = "rfind"
    /\ ret # <<npos>>
    /\ ret[1] <= call.index
    /\ \E k \in call.index + 1 .. len - 1 : data[k] = call.ch

\* FNV-1a over a sequence of units, kept to the low HashBits bits.
RECURSIVE Fnv1a(_)
Fnv1a(units) ==
    IF units = <<>> THEN FnvOffsetBasis % HashMod
    ELSE MulWrap(Xor(Fnv1a(SubSeq(units, 1, Len(units) - 1)), units[Len(units)])
                     % HashMod,
                 FnvPrime % HashMod)

\* C13: hash() is FNV-1a over exactly the first length units, so it depends on
\* the content only, not on the capacity nor on what lies beyond the
\* terminator.
C13_HashOfContent ==
    call.op = "hash" =>
        /\ ~thrown /\ ~ub /\ Unchanged
        /\ ret = <<Fnv1a(Content(self))>>

\* C13 witness: a non-empty string with a unit of an earlier content left
\* behind its terminator has been hashed.
C13_Witness ==
    /\ call.op = "hash"
    /\ len > 0
    /\ len + 1 <= cap
    /\ data[len + 1] # NUL

\* The starts of the maximal runs of units other than d in a sequence.
RunStarts(units, d) ==
    {a \in 1 .. Len(units) : units[a] # d /\ (a = 1 \/ units[a - 1] = d)}

\* The maximal run of units other than d that starts at a.
RunFrom(units, d, a) ==
    LET b == CHOOSE e \in a .. Len(units) :
                 /\ \A i \in a .. e : units[i] # d
                 /\ e = Len(units) \/ units[e + 1] = d
    IN  SubSeq(units, a, b)

\* C14: split(s, delimiter) returns, in order, the maximal non-empty runs of
\* non-delimiter units of s, the first MaxParts of them: every segment is
\* non-empty and holds no delimiter, and the empty segments of leading,
\* trailing and repeated delimiters are dropped.
C14_SplitDropsEmpty ==
    call.op = "split" =>
        LET starts == RunStarts(Old, call.ch)
            r == ret[1]
        IN  /\ ~ub
            /\ r.count = min(Cardinality(starts), call.count)
            /\ Len(r.parts) = r.count
            /\ \A k \in 1 .. r.count :
                 LET a == CHOOSE x \in starts :
                              Cardinality({y \in starts : y < x}) = k - 1
                     seg == Content(r.parts[k])
                 IN  /\ seg = RunFrom(Old, call.ch, a)
                     /\ seg # <<>>
                     /\ \A i \in 1 .. Len(seg) : seg[i] # call.ch
                     /\ r.parts[k].data[r.parts[k].len] = NUL

\* C14 witness: a string with a repeated delimiter between two runs was
\* split into two segments.
C14_Witness ==
    /\ call.op = "split"
    /\ call.count >= 2
    /\ Pre.len = 4
    /\ Pre.data[0] # call.ch
    /\ Pre.data[1] = call.ch
    /\ Pre.data[2] = call.ch
    /\ Pre.data[3] # call.ch
    /\ ret[1].count = 2

\* seg1 ++ d ++ seg2 ++ ... ++ d ++ segN
RECURSIVE Joined(_, _)
Joined(segs, d) ==
    IF Len(segs) = 1 THEN segs[1]
    ELSE Joined(SubSeq(segs, 1, Len(segs) - 1), d) \o d \o segs[Len(segs)]

\* The sum of the lengths of the segments.
RECURSIVE TotalLen(_)
TotalLen(segs) ==
    IF segs = <<>> THEN 0 ELSE Len(segs[1]) + TotalLen(SubSeq(segs, 2, Len(segs)))

\* C15: join(segments, delimiter) over N segments returns seg1 ++ d ++ ... ++
\* d ++ segN, the delimiter N - 1 times and only between segments, and the
\* result capacity suffices: the length is the sum of the segment lengths plus
\* (N - 1) times the delimiter length.
C15_JoinSeparates ==
    call.op = "join" =>
        /\ ~ub
        /\ Content(ret[1]) = Joined(call.seq, call.delim)
        /\ ret[1].len = TotalLen(call.seq) + (call.count - 1) * Len(call.delim)
        /\ ret[1].data[ret[1].len] = NUL

\* C15 witness: three segments, each filling its capacity, joined with a
\* delimiter of two units.
C15_Witness ==
    /\ call.op = "join"
    /\ call.count = 3
    /\ cap > 0
    /\ \A i \in 1 .. 3 : Len(call.seq[i]) = cap
    /\ Len(call.delim) = 2
    /\ ret[1].len = 3 * cap + 4

\* The string pad_left, pad_right or center would return with no capacity
\* limit.
IdealPadded ==
    LET d == call.count - Pre.len
        l == d \div 2
    IN  IF Pre.len >= call.count THEN Old
        ELSE CASE call.op = "pad_left" -> Repeat(call.ch, d) \o Old
               [] call.op = "pad_right" -> Old \o Repeat(call.ch, d)
               [] call.op = "center" -> Repeat(call.ch, l) \o Old \o Repeat(call.ch, d - l)

\* C16: pad_left, pad_right and center return the content unchanged when
\* length >= width and otherwise the first Capacity units of the ideal padded
\* string; center puts floor((width - length) / 2) fill units on the left and
\* the rest on the right.
C16_PadTruncatesIdeal ==
    call.op \in {"pad_left", "pad_right", "center"} =>
        /\ ~ub
        /\ Content(ret[1]) = Take(IdealPadded, cap)
        /\ ret[1].data[ret[1].len] = NUL

\* C16 witness: center with an odd number of fill units, all of which fit.
C16_Witness ==
    /\ call.op = "center"
    /\ Pre.len > 0
    /\ call.count > Pre.len
    /\ (call.count - Pre.len) % 2 = 1
    /\ call.count <= cap
    /\ ret[1].len = call.count

\* The number of leading whitespace units of a sequence.
LeadingSpace(units) ==
    CHOOSE k \in 0 .. Len(units) :
        /\ \A i \in 1 .. k : units[i] \in {Space, Tab, LineFeed, CarriageReturn}
        /\ k = Len(units) \/ units[k + 1] \notin {Space, Tab, LineFeed, CarriageReturn}

\* The position of the last unit that is not whitespace, 0 if there is none.
LastNonSpace(units) ==
    CHOOSE k \in 0 .. Len(units) :
        /\ \A i \in k + 1 .. Len(units) :
             units[i] \in {Space, Tab, LineFeed, CarriageReturn}
        /\ k = 0 \/ units[k] \notin {Space, Tab, LineFeed, CarriageReturn}

\* The content a trimming call produced: the string itself for the in-place
\* members, the returned string for the algorithms.
Trimmed ==
    IF call.op \in {"trim", "trim_left", "trim_right"} THEN self ELSE ret[1]

\* The outcome of the same trimming call made on the string it produced.
TrimmedAgain ==
    CASE call.op = "trim" /\ impl = "K" -> K_trim(Trimmed, cap)
      [] call.op = "trim" /\ impl = "S" -> S_trim(Trimmed, cap)
      [] call.op = "trim_left" -> K_trim_left(Trimmed, cap)
      [] call.op = "trim_right" -> K_trim_right(Trimmed, cap)
      [] call.op = "alg_trim" -> Alg_trim(Trimmed, cap)
      [] call.op = "alg_trim_left" -> Alg_trim_left(Trimmed, cap)
      [] call.op = "alg_trim_right" -> Alg_trim_right(Trimmed, cap)

\* C20: trim removes exactly the maximal leading and trailing runs of space,
\* tab, newline and carriage return and leaves the interior alone; trim_left
\* and trim_right strip their own end only; trimming a trimmed string changes
\* nothing.
C20_TrimIdempotent ==
    call.op \in {"trim", "trim_left", "trim_right",
                 "alg_trim", "alg_trim_left", "alg_trim_right"} =>
        LET from == IF call.op \in {"trim_right", "alg_trim_right"}
                    THEN 1 ELSE LeadingSpace(Old) + 1
            to == IF call.op \in {"trim_left", "alg_trim_left"}
                  THEN Len(Old) ELSE LastNonSpace(Old)
        IN  /\ ~thrown /\ ~ub
            /\ Content(Trimmed) = SubSeq(Old, from, to)
            /\ Trimmed.data[Trimmed.len] = NUL
            /\ Content(AsStr(TrimmedAgain)) = Content(Trimmed)

\* C20 witness: trim took a tab off the front and a carriage return off the
\* back of a string and kept the letter between them.
C20_Witness ==
    /\ call.op \in {"trim", "alg_trim"}
    /\ Pre.len = 3
    /\ Pre.data[0] = Tab
    /\ Pre.data[2] = CarriageReturn
    /\ Content(Trimmed) = <<LowerA>>


\* The digits 0-9a-z of a magnitude in a base, the most significant first and
\* without leading zeros, by the positional definition.
DigitCount(n, base) == CHOOSE k \in 1 .. WideBits + 1 :
                           /\ base ^ k > n
                           /\ k > 1 => base ^ (k - 1) <= n
DigitsOf(n, base) ==
    [i \in 1 .. DigitCount(n, base) |->
        LET d == (n \div (base ^ (DigitCount(n, base) - i))) % base
        IN  IF d < 10 THEN Digit0 + d ELSE LowerA + (d - 10)]
Numeral(x, base) ==
    IF x < 0 THEN <<Minus>> \o DigitsOf(-x, base) ELSE DigitsOf(x, base)

\* C17: for every integer x of the type, the minimum value and 0 included, and
\* every base in 2..36, parsing the text the conversion produced in that base
\* with the same base returns x.
C17_RoundTrip ==
    call.op = "round_trip" => ~ub /\ ret = <<call.count>>

\* C18: the conversion in a base in 2..36 yields the digits of the magnitude,
\* most significant first, without leading zeros, prefixed with '-' for every
\* negative value, and drops no digit for any value of the type.
C18_DigitsWithSign ==
    /\ call.op \in {"to_fstring", "to_fstring_base", "to_string_base"}
    /\ call.index \in 2 .. 36
    => /\ ~ub
       /\ Content(ret[1]) = Numeral(call.count, call.index)

\* An optional sign followed only by one or more digits valid in the base.
IsDigitIn(ch, base) ==
    \/ ch \in Digit0 .. Digit9 /\ ch - Digit0 < base
    \/ ch \in LowerA .. LowerZ /\ 10 + (ch - LowerA) < base
    \/ ch \in UpperA .. UpperZ /\ 10 + (ch - UpperA) < base
IsNumeral(str, base) ==
    LET body == IF str # <<>> /\ str[1] \in {Minus, Plus} THEN Tail(str) ELSE str
    IN  /\ body # <<>>
        /\ \A i \in 1 .. Len(body) : IsDigitIn(body[i], base)

\* C19: parse_int signals no error and returns zero for every empty or
\* malformed input, that is for every string that is not an optional sign
\* followed only by one or more digits valid in the base.
C19_SoftZero ==
    /\ call.op = "parse_int"
    /\ call.index \in 2 .. 36
    /\ ~IsNumeral(Old, call.index)
    => ~ub /\ ~thrown /\ ret = <<0>>


\* The unit a case conversion maps a unit to, by the ranges of the letters.
Cased(ch, upper) ==
    IF upper /\ ch \in LowerA .. LowerZ THEN UpperA + (ch - LowerA)
    ELSE IF ~upper /\ ch \in UpperA .. UpperZ THEN LowerA + (ch - UpperA)
    ELSE ch
CaseMapped(str, upper) == [i \in 1 .. Len(str) |-> Cased(str[i], upper)]
CaseResult == IF call.op \in {"to_upper", "to_lower"} THEN self ELSE ret[1]

\* C21: to_upper maps each unit 'a'..'z' to the corresponding 'A'..'Z' and
\* leaves every other unit and the length unchanged, to_lower symmetrically;
\* converting the result again changes nothing, and the non-mutating forms
\* leave their input unchanged.
C21_CaseIdempotent ==
    call.op \in {"to_upper", "to_lower", "to_upper_copy", "to_lower_copy"} =>
        LET upper == call.op \in {"to_upper", "to_upper_copy"}
        IN  /\ ~ub /\ ~thrown
            /\ Content(CaseResult) = CaseMapped(Old, upper)
            /\ CaseResult.data[CaseResult.len] = NUL
            /\ CaseMapped(Content(CaseResult), upper) = Content(CaseResult)
            /\ call.op \in {"to_upper_copy", "to_lower_copy"} => Unchanged

\* C21 witness: to_upper turned "az{" with a capital among it into capitals
\* and kept the unit after 'z'.
C21_Witness ==
    /\ call.op \in {"to_upper", "to_upper_copy"}
    /\ Old = <<LowerA, LowerZ, LowerZ + 1>>
    /\ Content(CaseResult) = <<UpperA, UpperZ, LowerZ + 1>>


\* The concatenation of a sequence of contents.
RECURSIVE Flat(_)
Flat(strs) == IF strs = <<>> THEN <<>> ELSE Head(strs) \o Flat(Tail(strs))

\* C22: operator+ / concat of strings with capacities C1 and C2, and builder
\* over strings with capacities C1..Cn, return a string whose capacity is the
\* sum of the capacities and whose content is the full concatenation, so its
\* length is the sum of the lengths; the operands are unchanged.
C22_ConcatNeverTruncates ==
    call.op \in {"concat", "builder"} =>
        /\ ~ub /\ ~thrown
        /\ DOMAIN ret[1].data = 0 .. cap + call.index
        /\ Content(ret[1]) = Old \o Flat(call.seq)
        /\ ret[1].len = Len(Old) + Len(Flat(call.seq))
        /\ ret[1].data[ret[1].len] = NUL
        /\ Unchanged

\* C22 witness: two full strings were concatenated, and builder joined three
\* strings, into a result longer than the capacity of the first.
C22_Witness ==
    /\ call.op \in {"concat", "builder"}
    /\ Pre.len = cap
    /\ cap > 0
    /\ call.index = Len(Flat(call.seq))
    /\ ret[1].len > cap


\* C23: every operation terminates on every input of bounded length; the
\* replace-all-substrings algorithm replace(str, from, to) returns for all
\* str, from and to, an empty from and a full result buffer included.
C23_ReplaceTerminates ==
    (call.op = "replace") ~> (call.op = "replace" /\ call.pc = "done")


\* C24: assigning a single unit to a string establishes I1 and I2 for every
\* Capacity, Capacity 0 included: the length is min(1, Capacity), the
\* terminator is at buffer[length], and no index above Capacity is written.
C24_AssignCharClamps ==
    call.op = "assign_char" =>
        /\ ~ub
        /\ len = min(1, cap)
        /\ len \in DOMAIN data /\ data[len] = NUL


\* The units an extraction took from the stream, and those of them that are
\* not whitespace.
Consumed == SubSeq(call.seq, 1, Len(call.seq) - Len(stream.buf))
NotSpace(ch) == ch \notin Whitespace

\* C25: extraction clears the string and stores the units of the next token,
\* stopping at whitespace or when the string is full; no non-whitespace unit
\* is taken from the stream without being stored, so the units of a token
\* beyond the capacity stay for the next read; both implementations extract
\* the same token from the same input.
C25_ExtractKeepsUnits ==
    call.op = "extract" =>
        /\ ~ub /\ ~thrown
        /\ len <= cap /\ data[len] = NUL
        /\ call.seq = Consumed \o stream.buf
        /\ SelectSeq(Consumed, NotSpace) = Content(self)
        /\ Content(F_extract(Pre, cap, call.is).str)
             = Content(K_extract(Pre, cap, call.is).str)


\* The digit sequence from_string parses in a string: after the leading
\* whitespace and the sign, the longest run of digits valid in the base, and
\* its mathematical value.
FirstAfterSpace(str) ==
    IF \E i \in 1 .. Len(str) : str[i] \notin Whitespace
    THEN CHOOSE i \in 1 .. Len(str) :
             str[i] \notin Whitespace /\ \A j \in 1 .. i - 1 : str[j] \in Whitespace
    ELSE Len(str) + 1
SignAt(str, i, signed) ==
    IF i > Len(str) THEN 0
    ELSE IF str[i] = Plus \/ (signed /\ str[i] = Minus) THEN 1 ELSE 0
DigitValue(ch) ==
    IF ch \in Digit0 .. Digit9 THEN ch - Digit0
    ELSE IF ch \in LowerA .. LowerZ THEN ch - LowerA + 10
    ELSE IF ch \in UpperA .. UpperZ THEN ch - UpperA + 10
    ELSE 36
DigitRun(str, from, base) ==
    LET ends == {e \in from - 1 .. Len(str) :
                    \A i \in from .. e : DigitValue(str[i]) < base}
        last == CHOOSE e \in ends : \A f \in ends : f <= e
    IN  SubSeq(str, from, last)
RECURSIVE ValueOf(_, _)
ValueOf(digits, base) ==
    IF digits = <<>> THEN 0
    ELSE ValueOf(SubSeq(digits, 1, Len(digits) - 1), base) * base
         + DigitValue(digits[Len(digits)])
\* The parsed number of the string of the call, with its sign.
ParsedDigits(signed) ==
    LET i == FirstAfterSpace(Old)
    IN  DigitRun(Old, i + SignAt(Old, i, signed), call.index)
ParsedValue(signed) ==
    LET i == FirstAfterSpace(Old)
        m == ValueOf(ParsedDigits(signed), call.index)
    IN  IF signed /\ i <= Len(Old) /\ Old[i] = Minus THEN -m ELSE m

\* C26: from_string returns true only when the mathematical value of the
\* parsed digit sequence, with its sign, is representable in the target type,
\* and then value equals it; every input whose magnitude overflows the type
\* makes it return false, for signed and unsigned targets and every base 2..36.
C26_FromStringRange ==
    /\ call.op \in {"from_string", "from_string_unsigned"}
    /\ call.index \in 2 .. 36
    /\ ret[1].ok
    => LET signed == call.op = "from_string"
       IN  /\ ~ub
           /\ ParsedValue(signed) \in (IF signed THEN IntValues ELSE 0 .. UIntMod - 1)
           /\ ret[1].value = ParsedValue(signed)

\* C27: whenever from_string returns false (empty or all-whitespace input,
\* invalid base, lone sign, no digits, overflow, magnitude out of range) the
\* caller's value is left as it was and the string is not modified.
C27_FailureLeavesValue ==
    /\ call.op \in {"from_string", "from_string_unsigned"}
    /\ ~ret[1].ok
    => /\ ret[1].value = call.count
       /\ Unchanged
       /\ ~ub

\* C27 witness: from_string returned false for digits whose value is above the
\* maximum of the signed type while the caller's variable held 7.
C27_Witness ==
    /\ call.op = "from_string"
    /\ call.index \in 2 .. 36
    /\ ParsedDigits(TRUE) # <<>>
    /\ ParsedValue(TRUE) > IntMax
    /\ call.count = 7
    /\ ~ret[1].ok
    /\ ret[1].value = 7


\* C28: string(src, pos, count) has length min(count, strlen(src) - pos,
\* Capacity) and content src[pos, pos + length) when pos < strlen(src), is
\* empty otherwise, and reads no source unit at or beyond the terminator of
\* src, for every count, counts above the rest of the source included.
C28_SubstringCtorClamps ==
    call.op = "ctor_substr" =>
        LET src == call.seq
            pos == call.index
            rest == Len(src) - pos
        IN  /\ ~ub /\ ~thrown
            /\ len \in DOMAIN data /\ data[len] = NUL
            /\ IF pos < Len(src)
               THEN /\ len = min(min(call.count, rest), cap)
                    /\ Content(self) = SubSeq(src, pos + 1, pos + len)
               ELSE len = 0


\* C29: substr(pos, count) is empty when pos >= length and otherwise holds
\* exactly old[pos, pos + min(count, length - pos)) cut to the capacity of
\* the result, reading no index outside [0, length), for every count of the
\* index type, those just below npos for which pos + count wraps included;
\* the string is unchanged.
C29_SubstrClamps ==
    call.op = "substr" =>
        LET pos == call.index
            N == call.seq[1]
            n == min(min(call.count, Len(Old) - pos), N)
        IN  /\ ~ub /\ ~thrown
            /\ Unchanged
            /\ ret[1].data[ret[1].len] = NUL
            /\ IF pos >= Len(Old) THEN ret[1].len = 0
               ELSE Content(ret[1]) = SubSeq(Old, pos + 1, pos + n)


\* C30: for every s, width and fill, the results of pad_left and center hold
\* all length(s) units of s as a contiguous run, as the suffix for pad_left,
\* also when width exceeds the capacity of the string.
C30_PadKeepsContent ==
    call.op \in {"pad_left", "center"} =>
        LET out == Content(ret[1])
            n == Len(Old)
        IN  /\ ~ub
            /\ Len(out) >= n
            /\ \E i \in 0 .. Len(out) - n : SubSeq(out, i + 1, i + n) = Old
            /\ call.op = "pad_left" => SubSeq(out, Len(out) - n + 1, Len(out)) = Old
====
